---- MODULE Spec2Model ----
(***************************************************************************)
(* Dream Prompter: the worker orchestrator (dialog_threads.py) and the     *)
(* prediction client (api.py).                                             *)
(*                                                                         *)
(* Two OS threads take part: the UI thread, which runs start, cancel and   *)
(* every callback scheduled with GLib.idle_add, and one worker thread per  *)
(* accepted request, which runs ReplicateAPI.edit_image / generate_image.  *)
(* A UI handler runs to completion; the worker interleaves with the UI     *)
(* thread at every read of the shared ThreadSafeState and at every         *)
(* GLib.idle_add.                                                          *)
(***************************************************************************)
EXTENDS Integers, Sequences, FiniteSets, TLC

(***************************************************************************)
(* Bounds of the model.                                                    *)
(***************************************************************************)
MaxRequests == 2
MaxEvents == 1

(***************************************************************************)
(* Program constants.                                                      *)
(***************************************************************************)
\* constants.py: progress fractions, in tenths.
PROGRESS_PREPARE == 1
PROGRESS_UPLOAD == 5
PROGRESS_PROCESS == 7
PROGRESS_DOWNLOAD == 9
PROGRESS_COMPLETE == 10
\* dialog_threads.py: fractions the terminal handlers report themselves.
HANDLER_CREATING == 9
HANDLER_CREATED == 10
\* api.py, _retry_with_backoff defaults.
max_retries == 3
backoff_factor == 2
initial_delay == 1

Ops == {"edit", "generate"}

\* Strings a caller can pass for api_key, prompt and model_version.
Texts == {" ", "x"}

\* str.strip() on Texts.
Strip(s) == IF s = " " THEN "" ELSE s

\* The exceptions func() can raise inside _retry_with_backoff:
\*   ConnectionError, TimeoutError  the two named OSError subclasses
\*   NetworkOSError   another OSError raised by the network stack
\*                    (socket.gaierror, ssl.SSLError)
\*   OtherOSError     an OSError that has nothing to do with the network
\*                    (PermissionError, FileNotFoundError)
\*   ReplicateError429  ReplicateError with status == 429
\*   ReplicateError   ReplicateError with another status, or with none
\*   Exception        anything else
ErrKinds == {"ConnectionError", "TimeoutError", "NetworkOSError",
             "OtherOSError", "ReplicateError429", "ReplicateError",
             "Exception"}

\* isinstance(e, OSError)
IsOSError(k) ==
    k \in {"ConnectionError", "TimeoutError", "NetworkOSError", "OtherOSError"}

\* What prediction.output can hold once the stream has ended.
Responses == {"image", "empty", "garbage"}

\* event.data of the streamed events.
Events == {"starting", "processing", "succeeded", "other"}

\* Outcomes of a host-editor collaborator (export, create image/layer).
HostOutcomes == {"ok", "none", "raise"}

\* Outcomes of the ReplicateAPI constructor.
CtorOutcomes == {"ok", "ImportError", "RuntimeError"}

\* The callbacks the dialog registers with set_callbacks.
Callbacks == {"on_success", "on_error"}

\* What a call of progress_callback / stream_callback can do: return a truthy
\* value, return a falsy one, or raise. "absent" stands for a callback that
\* was not supplied (None), which the client never calls.
Answers == {"true", "false", "raise"}

\* The outcomes of prediction.cancel(): it returns, or it raises.
CancelOutcomes == {"ok"} \cup ErrKinds

VARIABLES
    processing,        \* ThreadSafeState._processing
    cancel_requested,  \* ThreadSafeState._cancel_requested
    model_version,     \* DreamPrompterThreads._model_version ("" for None)
    image,             \* DreamPrompterThreads.image is set
    drawable,          \* DreamPrompterThreads.drawable is set
    current_thread,    \* DreamPrompterThreads._current_thread (0 for None)
    workers,           \* the worker threads created so far, by thread id
    uiQueue,           \* callbacks scheduled with GLib.idle_add, FIFO
    ui,                \* the widgets the orchestrator touches
    lastCb,            \* the last callback invoked since the last accepted start
    lastCall           \* the last call of start

vars == <<processing, cancel_requested, model_version, image, drawable,
          current_thread, workers, uiQueue, ui, lastCb, lastCall>>

(***************************************************************************)
(* ThreadSafeState and the start gate.                                     *)
(***************************************************************************)
\* A plausible slip: the gate forgets the processing flag.
can_start_processing_ignores_processing(p, c) == ~c

\* A plausible slip: the gate admits every call.
can_start_processing_always(p, c) == TRUE

\* ThreadSafeState.can_start_processing
can_start_processing(p, c) == ~p /\ ~c

\* A falsy or whitespace-only argument ("not s or not s.strip()").
Blank(s) == s = "" \/ Strip(s) = ""

\* DreamPrompterThreads._normalize_model_version
_normalize_model_version(mv, stored) ==
    IF mv # "" /\ Strip(mv) # "" THEN Strip(mv)
    ELSE IF stored # "" /\ Strip(stored) # "" THEN Strip(stored)
    ELSE ""

\* The checks of start_generate_thread after the gate: the message handed to
\* _handle_error, or "" when the request is accepted.
GenerateInputError(key, prompt, mv, stored) ==
    IF Blank(key) THEN "Replicate API token is required"
    ELSE IF Blank(prompt) THEN "Prompt is required"
    ELSE IF _normalize_model_version(mv, stored) = ""
         THEN "Replicate model version is required"
    ELSE ""

\* The checks of start_edit_thread after the gate.
EditInputError(key, prompt, mv, stored, img, drw) ==
    IF ~drw THEN "No layer available for editing"
    ELSE IF ~img THEN "No image available for editing"
    ELSE GenerateInputError(key, prompt, mv, stored)

StartInputError(op, key, prompt, mv, stored, img, drw) ==
    IF op = "edit" THEN EditInputError(key, prompt, mv, stored, img, drw)
    ELSE GenerateInputError(key, prompt, mv, stored)

(***************************************************************************)
(* The prediction client: outcomes, checkpoints and the retry policy.      *)
(***************************************************************************)
\* The (pixbuf, error_msg) pair edit_image / generate_image return.
Success == [img |-> TRUE, msg |-> ""]
Failure(m) == [img |-> FALSE, msg |-> m]
CancelledRet == Failure("Operation cancelled")
NoRet == [img |-> FALSE, msg |-> "(running)"]

\* A plausible slip: generate_image reports the request-building checkpoint
\* as edit_image does.
CheckpointsAlike(op) ==
    <<PROGRESS_PREPARE, PROGRESS_UPLOAD, PROGRESS_PROCESS,
      PROGRESS_DOWNLOAD, PROGRESS_COMPLETE>>

\* The fractions the client hands to progress_callback, in program order.
Checkpoints(op) ==
    IF op = "edit"
    THEN <<PROGRESS_PREPARE, PROGRESS_UPLOAD, PROGRESS_PROCESS,
           PROGRESS_DOWNLOAD, PROGRESS_COMPLETE>>
    ELSE <<PROGRESS_PREPARE, PROGRESS_PROCESS,
           PROGRESS_DOWNLOAD, PROGRESS_COMPLETE>>

\* A plausible slip: every backend API error taken for a rate limit.
TransientAnyApiError(k) ==
    IsOSError(k) \/ k \in {"ReplicateError429", "ReplicateError"}

\* The errors _retry_with_backoff treats as transient: the except arm for
\* (ConnectionError, TimeoutError, OSError) and ReplicateError with status 429.
Transient(k) == IsOSError(k) \/ k = "ReplicateError429"

\* A plausible slip: "attempt <= max_retries", one sleep too many.
ShouldRetryOffByOne(k, attempt) == Transient(k) /\ attempt <= max_retries

\* _retry_with_backoff: sleep and try again, or re-raise.
ShouldRetry(k, attempt) == Transient(k) /\ attempt < max_retries

\* The except arms of edit_image / generate_image.
ClientErrorMessage(k) ==
    IF k \in {"ReplicateError429", "ReplicateError"}
    THEN "Replicate API error" ELSE "Unexpected error"

\* _parse_image_response on the three kinds of prediction output.
_parse_image_response(r) ==
    IF r = "empty" THEN Failure("No image data found in Replicate response")
    ELSE IF r = "garbage"
         THEN Failure("Failed to decode image data from Replicate response")
    ELSE Success

\* The worker's progress_callback and stream_callback closures: False once
\* cancellation was requested, else schedule ui.update_status and return True.
progress_callback(c) == ~c

stream_callback(c) == ~c

\* A plausible slip: the worker forgets the cancel check after the client
\* has returned.
TerminalForNoCancelCheck(c, ret) ==
    IF ret.msg # "" THEN "_handle_error"
    ELSE IF ~ret.img THEN "_handle_error"
    ELSE "_handle_image"

\* The terminal handler the worker schedules once the client has returned.
TerminalFor(c, ret) ==
    IF c THEN "_handle_cancelled"
    ELSE IF ret.msg # "" THEN "_handle_error"
    ELSE IF ~ret.img THEN "_handle_error"
    ELSE "_handle_image"

(***************************************************************************)
(* The terminal handlers, as the statements they execute on the UI thread. *)
(***************************************************************************)
\* A plausible slip: the cancelled handler leaves the state Processing.
HandleCancelledKeepsProcessing ==
    <<"clear_current_thread", "status_cancelled", "set_ui_enabled_True">>

\* DreamPrompterThreads._handle_cancelled
HandleCancelledBody ==
    <<"set_processing_False", "clear_current_thread", "status_cancelled",
      "set_ui_enabled_True">>

\* A plausible slip: the error callback invoked before the state is reset.
HandleErrorCallbackFirst ==
    <<"on_error", "set_processing_False", "clear_current_thread",
      "set_ui_enabled_True">>

\* DreamPrompterThreads._handle_error
HandleErrorBody ==
    <<"set_processing_False", "clear_current_thread", "set_ui_enabled_True",
      "on_error">>

\* DreamPrompterThreads._handle_success
HandleSuccessBody ==
    <<"set_processing_False", "clear_current_thread", "set_ui_enabled_True",
      "on_success">>

\* A plausible slip: the "return" after the failure report is missing, so the
\* handler falls through to the success path.
HandleImageNoReturn(create) ==
    IF create = "ok"
    THEN <<"status_creating", "import", "status_created">>
         \o HandleSuccessBody
    ELSE IF create = "none"
    THEN <<"status_creating">> \o HandleErrorBody
         \o <<"status_created">> \o HandleSuccessBody
    ELSE <<"status_creating">> \o HandleErrorBody

\* DreamPrompterThreads._handle_generated_image / _handle_edited_image, given
\* what integrator.create_new_image / create_edit_layer does.
HandleImageBody(create) ==
    IF create = "ok"
    THEN <<"status_creating", "import", "status_created">>
         \o HandleSuccessBody
    ELSE <<"status_creating">> \o HandleErrorBody

\* The statements of the handler named fn.
HandlerBody(fn, create) ==
    IF fn = "_handle_cancelled" THEN HandleCancelledBody
    ELSE IF fn = "_handle_error" THEN HandleErrorBody
    ELSE HandleImageBody(create)

\* The part of the state a handler works on.
HandlerState(t) ==
    [processing |-> processing, current_thread |-> current_thread, ui |-> ui,
     lastCb |-> lastCb,
     frac |-> IF t \in DOMAIN workers THEN workers[t].frac ELSE 0,
     nSucc |-> 0, nErr |-> 0, outcome |-> "pending", imported |-> FALSE]

\* One statement of a handler, run for request t (0: no request).
ExecStmt(s, h, t) ==
    CASE s = "set_processing_False" -> [h EXCEPT !.processing = FALSE]
      [] s = "clear_current_thread" -> [h EXCEPT !.current_thread = 0]
      [] s = "set_ui_enabled_True" -> [h EXCEPT !.ui.enabled = TRUE]
      [] s = "status_cancelled" -> [h EXCEPT !.outcome = "cancelled"]
      [] s = "status_creating" -> [h EXCEPT !.frac = HANDLER_CREATING]
      [] s = "status_created" -> [h EXCEPT !.frac = HANDLER_CREATED]
      [] s = "import" -> [h EXCEPT !.imported = TRUE]
      [] s = "on_error" ->
            [h EXCEPT !.nErr = @ + 1, !.outcome = "error",
                      !.lastCb = [cb |-> "on_error",
                                  processing |-> h.processing, t |-> t]]
      [] s = "on_success" ->
            [h EXCEPT !.nSucc = @ + 1, !.outcome = "success",
                      !.lastCb = [cb |-> "on_success",
                                  processing |-> h.processing, t |-> t]]

RECURSIVE Exec(_, _, _)
Exec(stmts, h, t) ==
    IF stmts = <<>> THEN h
    ELSE Exec(Tail(stmts), ExecStmt(Head(stmts), h, t), t)

(***************************************************************************)
(* State.                                                                  *)
(***************************************************************************)
\* A worker thread just created by start for operation op.
NewWorker(op) ==
    [op |-> op, pc |-> "begin",
     ck |-> 1,              \* index of the next checkpoint in Checkpoints(op)
     cps |-> <<>>,          \* fractions handed to progress_callback so far
     attempt |-> 0,         \* loop variable of _retry_with_backoff
     delay |-> initial_delay,
     lastErr |-> "none",    \* the exception the last failed attempt raised
     sleeps |-> <<>>,       \* the arguments of time.sleep so far
     nev |-> 0,             \* events streamed to the request so far
     bcancel |-> 0,         \* calls of prediction.cancel
     cbFalse |-> FALSE,     \* a callback has returned False in this run
     streamAbort |-> FALSE, \* create_prediction returned on a False callback
     response |-> "empty",  \* what _run_streaming_prediction returned
     ret |-> NoRet,         \* what edit_image / generate_image returned
     pcb |-> TRUE,          \* a progress_callback is supplied to the client
     scb |-> TRUE,          \* a stream_callback is supplied to the client
     posted |-> "none",     \* the terminal handler scheduled on the UI loop
     frac |-> 0,            \* the fraction the progress bar shows for the request
     outcome |-> "pending", \* the terminal handler that ran
     nSucc |-> 0, nErr |-> 0, \* invocations of on_success / on_error
     imported |-> FALSE]    \* an image or layer was created in the editor

NoCb == [cb |-> "none", processing |-> FALSE, t |-> 0]

\* lastCall: whether start was called with inputs that pass every input check,
\* and whether the state was Processing when it was called.
NoCall == [fn |-> "none", valid |-> FALSE, wasProcessing |-> FALSE]

\* What is left of a request once the next one is accepted: the Thread object
\* is unreferenced and nothing of the request is kept.
Retired(w) ==
    IF w.outcome = "pending" THEN w
    ELSE [NewWorker("none") EXCEPT !.pc = "done", !.outcome = "retired"]

Init ==
    /\ processing = FALSE
    /\ cancel_requested = FALSE
    /\ model_version = ""
    /\ image \in BOOLEAN
    /\ drawable \in BOOLEAN
    /\ current_thread = 0
    /\ workers = <<>>
    /\ uiQueue = <<>>
    /\ ui = [enabled |-> TRUE]
    /\ lastCb = NoCb
    /\ lastCall = NoCall

\* GLib.idle_add(fn, ...) for request t; pct is {} for "no percentage".
IdleAdd(q, fn, pct, t) == Append(q, [fn |-> fn, pct |-> pct, t |-> t])

(***************************************************************************)
(* UI thread: the public operations.                                       *)
(***************************************************************************)
\* start_generate_thread / start_edit_thread(api_key, prompt, _, model_version)
Start(op, key, prompt, mv) ==
    LET err == StartInputError(op, key, prompt, mv, model_version,
                               image, drawable)
        h   == Exec(HandleErrorBody, HandlerState(0), 0)
        call == [fn |-> "start", valid |-> (err = ""),
                 wasProcessing |-> processing]
    IN
    /\ Len(workers) < MaxRequests
    /\ UNCHANGED <<image, drawable, uiQueue>>
    /\ IF ~can_start_processing(processing, cancel_requested)
       THEN /\ lastCall' = call
            /\ UNCHANGED <<processing, cancel_requested, model_version,
                           current_thread, workers, ui, lastCb>>
       ELSE IF err # ""
       THEN /\ lastCall' = call
            /\ processing' = h.processing
            /\ current_thread' = h.current_thread
            /\ ui' = h.ui
            /\ lastCb' = h.lastCb
            /\ UNCHANGED <<cancel_requested, model_version, workers>>
       ELSE /\ lastCall' = call
            /\ model_version' = _normalize_model_version(mv, model_version)
            /\ processing' = TRUE
            /\ cancel_requested' = FALSE
            /\ ui' = [ui EXCEPT !.enabled = FALSE]
            /\ workers' = Append([t \in DOMAIN workers |-> Retired(workers[t])],
                                 NewWorker(op))
            /\ current_thread' = Len(workers) + 1
            /\ lastCb' = NoCb

\* cancel_processing
Cancel ==
    /\ cancel_requested' = TRUE
    /\ UNCHANGED <<processing, model_version, image, drawable, current_thread,
                   workers, uiQueue, ui, lastCb, lastCall>>

(***************************************************************************)
(* UI thread: one callback taken from the idle queue and run to its end.   *)
(***************************************************************************)
\* ui.update_status(message, percentage), scheduled by the worker's closures.
UiUpdateStatus ==
    /\ uiQueue # <<>>
    /\ Head(uiQueue).fn = "update_status"
    /\ uiQueue' = Tail(uiQueue)
    /\ workers' = IF Head(uiQueue).pct = {} THEN workers
                  ELSE [workers EXCEPT ![Head(uiQueue).t].frac =
                          CHOOSE f \in Head(uiQueue).pct : TRUE]
    /\ UNCHANGED <<processing, cancel_requested, model_version, image,
                   drawable, current_thread, ui, lastCb, lastCall>>

\* _handle_cancelled, _handle_error, _handle_generated_image or
\* _handle_edited_image, scheduled by the worker as its last act.
UiTerminal ==
    /\ uiQueue # <<>>
    /\ Head(uiQueue).fn # "update_status"
    /\ LET e == Head(uiQueue)
           t == e.t
       IN \E create \in (IF e.fn = "_handle_image" THEN HostOutcomes
                         ELSE {"ok"}) :
            LET h == Exec(HandlerBody(e.fn, create), HandlerState(t), t) IN
            /\ uiQueue' = Tail(uiQueue)
            /\ processing' = h.processing
            /\ current_thread' = h.current_thread
            /\ ui' = h.ui
            /\ lastCb' = h.lastCb
            /\ workers' = [workers EXCEPT
                             ![t].outcome = h.outcome,
                             ![t].nSucc = @ + h.nSucc,
                             ![t].nErr = @ + h.nErr,
                             ![t].imported = h.imported,
                             ![t].frac = h.frac]
    /\ UNCHANGED <<cancel_requested, model_version, image, drawable,
                   lastCall>>

(***************************************************************************)
(* Worker thread: _generate_image_worker / _edit_image_worker, with the    *)
(* client call it makes.                                                   *)
(***************************************************************************)
Live(t) == workers[t].pc # "done"

UiVars == <<processing, model_version, image, drawable, current_thread, ui,
            lastCb, lastCall>>

\* The worker's last act: schedule terminal handler fn and end the thread.
\* The thread's locals die with it.
Finish(w, fn) ==
    [w EXCEPT !.pc = "done", !.posted = fn, !.ck = 1, !.cps = <<>>,
              !.attempt = 0, !.delay = initial_delay, !.lastErr = "none",
              !.sleeps = <<>>, !.nev = 0, !.bcancel = 0,
              !.streamAbort = FALSE, !.response = "empty", !.ret = NoRet]

\* The first lines of the worker: the early cancel check, the image check of
\* the edit worker, and the ReplicateAPI constructor inside the try block.
WorkerBegin(t) ==
    LET w == workers[t] IN
    /\ w.pc = "begin"
    /\ UNCHANGED <<UiVars, cancel_requested>>
    /\ IF cancel_requested
       THEN /\ workers' = [workers EXCEPT ![t] = Finish(w, "_handle_cancelled")]
            /\ uiQueue' = IdleAdd(uiQueue, "_handle_cancelled", {}, t)
       ELSE IF w.op = "edit" /\ ~image
       THEN /\ workers' = [workers EXCEPT ![t] = Finish(w, "_handle_error")]
            /\ uiQueue' = IdleAdd(uiQueue, "_handle_error", {}, t)
       ELSE \E ctor \in CtorOutcomes :
              IF ctor = "ok"
              THEN /\ workers' = [workers EXCEPT ![t].pc = "checkpoint"]
                   /\ UNCHANGED uiQueue
              ELSE /\ workers' = [workers EXCEPT
                                    ![t] = Finish(w, "_handle_error")]
                   /\ uiQueue' = IdleAdd(uiQueue, "_handle_error", {}, t)

\* _retry_with_backoff when func() has raised k: sleep next, or re-raise into
\* the except arms of edit_image / generate_image.
Raised(w, k) ==
    IF ShouldRetry(k, w.attempt)
    THEN [w EXCEPT !.lastErr = k, !.pc = "sleep"]
    ELSE [w EXCEPT !.lastErr = k, !.ret = Failure(ClientErrorMessage(k)),
                   !.pc = "returned"]

\* A plausible slip: only the first checkpoint honours the callback's answer.
CancelsAtFirstOnly(f, ans) == ans = "false" /\ f = PROGRESS_PREPARE

\* "if progress_callback and not progress_callback(...): return None,
\* 'Operation cancelled'", the test at every checkpoint but the last, whose
\* answer is dropped.
CancelsAt(f, ans) == ans = "false" /\ f # PROGRESS_COMPLETE

\* edit_image / generate_image from the checkpoint of fraction f to the next
\* checkpoint, network call or return. ans is what progress_callback did
\* ("absent": none was supplied), export what
\* integrator.export_current_region_to_bytes did. The first checkpoint stands
\* before the try block, so an exception of the callback leaves the client
\* there (pc "raised"); everywhere else the except arms turn it into a Failure.
AfterCheckpoint(w, f, ans, export) ==
    LET w1 == IF ans = "absent" THEN w
              ELSE [w EXCEPT !.cps = Append(@, f),
                             !.cbFalse = @ \/ ans = "false"]
        parsed == _parse_image_response(w.response)
        returns(r) == [w1 EXCEPT !.ret = r, !.pc = "returned"]
    IN
    IF ans = "raise"
    THEN IF f = PROGRESS_PREPARE THEN [w1 EXCEPT !.pc = "raised"]
         ELSE returns(Failure(ClientErrorMessage("Exception")))
    ELSE IF CancelsAt(f, ans) THEN returns(CancelledRet)
    ELSE IF f = PROGRESS_COMPLETE THEN returns(parsed)
    ELSE IF f = PROGRESS_PREPARE /\ w.op = "edit"
    THEN IF export = "ok" THEN [w1 EXCEPT !.ck = @ + 1]
         ELSE IF export = "none"
         THEN returns(Failure("Failed to export current image"))
         ELSE returns(Failure(ClientErrorMessage("Exception")))
    ELSE IF f = PROGRESS_PROCESS
    THEN [w1 EXCEPT !.ck = @ + 1, !.pc = "attempt"]
    ELSE IF f = PROGRESS_DOWNLOAD
    THEN IF parsed.img
         THEN IF w.pcb THEN [w1 EXCEPT !.ck = @ + 1] ELSE returns(parsed)
         ELSE returns(parsed)
    ELSE [w1 EXCEPT !.ck = @ + 1]

\* create_prediction on one event e of prediction.stream(). ans is what
\* status_callback did, exc the exception it raised if it raised, cancel what
\* prediction.cancel() did if it was called. On a falsy answer the closure
\* returns None ("empty") through the retry loop, after prediction.cancel()
\* for "starting" and "processing" and without it for "succeeded"; an
\* exception of the callback or of prediction.cancel() goes to the retry loop
\* like any other.
AfterStreamEvent(w, e, ans, exc, cancel) ==
    LET w1 == [w EXCEPT !.nev = @ + 1]
        aborted == [w1 EXCEPT !.cbFalse = TRUE, !.streamAbort = TRUE,
                              !.response = "empty", !.pc = "checkpoint"]
    IN
    IF e = "other" \/ ans \in {"true", "absent"} THEN w1
    ELSE IF ans = "raise" THEN Raised(w1, exc)
    ELSE IF e = "succeeded" THEN aborted
    ELSE IF cancel = "ok" THEN [aborted EXCEPT !.bcancel = @ + 1]
    ELSE Raised([w1 EXCEPT !.cbFalse = TRUE, !.bcancel = @ + 1], cancel)

\* The client at the checkpoint Checkpoints(op)[ck], called by the worker: the
\* progress_callback closure answers and schedules ui.update_status.
Checkpoint(t) ==
    LET w  == workers[t]
        f  == Checkpoints(w.op)[w.ck]
        go == progress_callback(cancel_requested)
    IN
    /\ w.pc = "checkpoint"
    /\ UNCHANGED <<UiVars, cancel_requested>>
    /\ uiQueue' = IF go THEN IdleAdd(uiQueue, "update_status", {f}, t)
                  ELSE uiQueue
    /\ \E export \in (IF go /\ f = PROGRESS_PREPARE /\ w.op = "edit"
                      THEN HostOutcomes ELSE {"ok"}) :
         workers' = [workers EXCEPT ![t] =
                       AfterCheckpoint(w, f, IF go THEN "true" ELSE "false",
                                       export)]

\* create_prediction: client.predictions.create(...) returns a prediction.
AttemptCreate(t) ==
    LET w == workers[t] IN
    /\ w.pc = "attempt"
    /\ workers' = [workers EXCEPT ![t] =
                     [w EXCEPT !.pc = "stream"]]
    /\ UNCHANGED <<UiVars, cancel_requested, uiQueue>>

\* create_prediction: client.predictions.create(...) raises.
AttemptRaise(t) ==
    LET w == workers[t] IN
    /\ w.pc = "attempt"
    /\ \E k \in ErrKinds : workers' = [workers EXCEPT ![t] = Raised(w, k)]
    /\ UNCHANGED <<UiVars, cancel_requested, uiQueue>>

\* create_prediction on one event of prediction.stream(), called by the
\* worker: the stream_callback closure answers and schedules ui.update_status.
StreamEvent(t) ==
    LET w  == workers[t]
        go == stream_callback(cancel_requested)
    IN
    /\ w.pc = "stream"
    /\ w.nev < MaxEvents
    /\ UNCHANGED <<UiVars, cancel_requested>>
    /\ \E e \in Events :
         /\ uiQueue' = IF e # "other" /\ go
                       THEN IdleAdd(uiQueue, "update_status", {}, t)
                       ELSE uiQueue
         /\ \E cancel \in (IF ~go /\ e \in {"starting", "processing"}
                           THEN CancelOutcomes ELSE {"ok"}) :
              workers' = [workers EXCEPT ![t] =
                            AfterStreamEvent(w, e,
                                             IF go THEN "true" ELSE "false",
                                             "Exception", cancel)]

\* create_prediction: the stream or prediction.wait() raises.
StreamRaise(t) ==
    LET w == workers[t] IN
    /\ w.pc = "stream"
    /\ \E k \in ErrKinds : workers' = [workers EXCEPT ![t] = Raised(w, k)]
    /\ UNCHANGED <<UiVars, cancel_requested, uiQueue>>

\* create_prediction: the stream ends, prediction.wait() returns and
\* prediction.output is handed back through the retry loop.
StreamEnd(t) ==
    LET w == workers[t] IN
    /\ w.pc = "stream"
    /\ \E r \in Responses :
         workers' = [workers EXCEPT ![t] =
                       [w EXCEPT !.response = r, !.pc = "checkpoint"]]
    /\ UNCHANGED <<UiVars, cancel_requested, uiQueue>>

\* _retry_with_backoff: time.sleep(delay); delay *= backoff_factor.
Sleep(t) ==
    LET w == workers[t] IN
    /\ w.pc = "sleep"
    /\ workers' = [workers EXCEPT ![t] =
                     [w EXCEPT !.lastErr = "none",
                               !.sleeps = Append(@, w.delay),
                               !.delay = @ * backoff_factor,
                               !.attempt = @ + 1, !.pc = "attempt"]]
    /\ UNCHANGED <<UiVars, cancel_requested, uiQueue>>

\* A plausible slip: the worker calls the terminal handler itself instead of
\* handing it to GLib.idle_add.
WorkerEndCallsHandler(t) ==
    LET w  == workers[t]
        fn == TerminalFor(cancel_requested, w.ret)
        h  == Exec(HandlerBody(fn, "ok"), HandlerState(t), t)
    IN
    /\ w.pc = "returned"
    /\ workers' = [workers EXCEPT ![t] =
                     [Finish(w, fn) EXCEPT !.outcome = h.outcome,
                                           !.nSucc = @ + h.nSucc,
                                           !.nErr = @ + h.nErr,
                                           !.imported = h.imported,
                                           !.frac = h.frac]]
    /\ processing' = h.processing
    /\ current_thread' = h.current_thread
    /\ ui' = h.ui
    /\ lastCb' = h.lastCb
    /\ UNCHANGED <<cancel_requested, model_version, image, drawable,
                   lastCall, uiQueue>>

\* The worker after the client call has returned: the last cancel check and
\* the terminal handler it schedules.
WorkerEnd(t) ==
    LET w  == workers[t]
        fn == TerminalFor(cancel_requested, w.ret)
    IN
    /\ w.pc = "returned"
    /\ workers' = [workers EXCEPT ![t] = Finish(w, fn)]
    /\ uiQueue' = IdleAdd(uiQueue, fn, {}, t)
    /\ UNCHANGED <<UiVars, cancel_requested>>

WorkerStep(t) ==
    \/ WorkerBegin(t)
    \/ Checkpoint(t)
    \/ AttemptCreate(t)
    \/ AttemptRaise(t)
    \/ StreamEvent(t)
    \/ StreamRaise(t)
    \/ StreamEnd(t)
    \/ Sleep(t)
    \/ WorkerEnd(t)

UiStep ==
    \/ UiUpdateStatus
    \/ UiTerminal

Next ==
    \/ \E op \in Ops, key \in Texts, prompt \in Texts, mv \in Texts :
         Start(op, key, prompt, mv)
    \/ Cancel
    \/ UiStep
    \/ \E t \in DOMAIN workers : WorkerStep(t)

Spec == Init /\ [][Next]_vars

\* The backend call returns, the worker thread is scheduled and the UI loop
\* runs the callbacks scheduled on it.
FairSpec ==
    /\ Spec
    /\ WF_vars(UiStep)
    /\ WF_vars(\E t \in DOMAIN workers : WorkerStep(t))

(***************************************************************************)
(* The client called directly: edit_image / generate_image are public, and  *)
(* a caller other than the worker supplies callbacks of its own, or none.   *)
(* The call in progress is kept in workers[1]; the orchestrator stays Idle. *)
(***************************************************************************)
\* edit_image(image, ...) / generate_image(...) is called: the checks before
\* the first checkpoint. img: an image was passed to edit_image.
DirectCall(op, img, pcb, scb) ==
    LET w == [NewWorker(op) EXCEPT !.pcb = pcb, !.scb = scb] IN
    /\ \A t \in DOMAIN workers : workers[t].pc \in {"returned", "raised"}
    /\ workers' =
         << IF op = "edit" /\ ~img
            THEN [w EXCEPT !.ret = Failure("No GIMP image provided for editing"),
                           !.pc = "returned"]
            ELSE [w EXCEPT !.pc = "checkpoint"] >>
    /\ UNCHANGED <<UiVars, cancel_requested, uiQueue>>

\* The client at the checkpoint Checkpoints(op)[ck], with the caller's
\* progress_callback.
DirectCheckpoint(t) ==
    LET w == workers[t]
        f == Checkpoints(w.op)[w.ck]
    IN
    /\ w.pc = "checkpoint"
    /\ UNCHANGED <<UiVars, cancel_requested, uiQueue>>
    /\ \E ans \in (IF w.pcb THEN Answers ELSE {"absent"}) :
         \E export \in (IF f = PROGRESS_PREPARE /\ w.op = "edit"
                           /\ ans \in {"true", "absent"}
                        THEN HostOutcomes ELSE {"ok"}) :
           workers' = [workers EXCEPT ![t] = AfterCheckpoint(w, f, ans, export)]

\* create_prediction on one event of prediction.stream(), with the caller's
\* stream_callback behind status_callback.
DirectStreamEvent(t) ==
    LET w == workers[t] IN
    /\ w.pc = "stream"
    /\ w.nev < MaxEvents
    /\ UNCHANGED <<UiVars, cancel_requested, uiQueue>>
    /\ \E e \in Events :
         \E ans \in (IF w.scb THEN Answers ELSE {"absent"}) :
           \E exc \in ErrKinds, cancel \in CancelOutcomes :
             workers' = [workers EXCEPT ![t] =
                           AfterStreamEvent(w, e, ans, exc, cancel)]

DirectStep(t) ==
    \/ DirectCheckpoint(t)
    \/ AttemptCreate(t)
    \/ AttemptRaise(t)
    \/ DirectStreamEvent(t)
    \/ StreamRaise(t)
    \/ StreamEnd(t)
    \/ Sleep(t)

ClientInit == Init /\ image /\ drawable

ClientNext ==
    \/ \E op \in Ops, img \in BOOLEAN, pcb \in BOOLEAN, scb \in BOOLEAN :
         DirectCall(op, img, pcb, scb)
    \/ \E t \in DOMAIN workers : DirectStep(t)

ClientSpec == ClientInit /\ [][ClientNext]_vars

(***************************************************************************)
(* The request payload: reference images and model parameters.             *)
(***************************************************************************)
\* Most reference paths in one call.
MaxPaths == 4

\* constants.py
MAX_FILE_SIZE_MB == 7
MAX_REFERENCE_IMAGES_EDIT == 2
MAX_REFERENCE_IMAGES_GENERATE == 3
VALIDATION_HEADER_SIZE == 65536
VALIDATION_CHUNK_SIZE == 8192
VALIDATION_MAX_CHUNKS == 10
SUPPORTED_MIME_TYPES == {"image/png", "image/jpeg", "image/webp"}
\* api.py, the largest width or height the validator accepts.
MaxDimension == 65535

\* "max_bytes = max_size_mb * 1024 * 1024"
max_bytes == MAX_FILE_SIZE_MB * 1024 * 1024

\* A file behind a reference path. mime is what mimetypes.guess_type makes of
\* the path ("" for None). loader tells how GdkPixbuf.PixbufLoader takes the
\* data: "header" yields a pixbuf from the first bytes, "late" yields one only
\* once the whole file was written and the loader closed, "corrupt" raises
\* GLib.Error on write.
RefFile(name, exists, size, mime, loader, width, height) ==
    [name |-> name, exists |-> exists, size |-> size, mime |-> mime,
     loader |-> loader, width |-> width, height |-> height]

\* The files a user can select.
Files ==
    { RefFile("a.png", TRUE, 1000, "image/png", "header", 64, 64),
      RefFile("b.jpg", TRUE, max_bytes, "image/jpeg", "header", 64, 64),
      RefFile("c.png", TRUE, max_bytes + 1, "image/png", "header", 64, 64),
      RefFile("d.txt", TRUE, 1000, "text/plain", "header", 64, 64),
      RefFile("e.webp", TRUE, 100000, "image/webp", "late", 64, 64),
      RefFile("f.webp", TRUE, 1000, "image/webp", "late", 64, 64),
      RefFile("g.png", TRUE, 1000, "image/png", "corrupt", 0, 0),
      RefFile("h.png", FALSE, 0, "image/png", "header", 0, 0) }

\* The lists (or None, as <<>>) a caller can pass for reference_images.
SeqsUpTo(S, n) == UNION {[1..k -> S] : k \in 0..n}

Min(a, b) == IF a < b THEN a ELSE b

\* "width <= 0 or height <= 0 or width > 65535 or height > 65535"
BadDimensions(f) ==
    f.width <= 0 \/ f.height <= 0
      \/ f.width > MaxDimension \/ f.height > MaxDimension

\* _validate_image_content on the first n bytes of the file: the loader is
\* written and closed, which fails on a truncated or corrupt image.
_validate_image_content(f, n) ==
    IF n = 0 THEN FALSE
    ELSE IF f.loader = "corrupt" \/ n < f.size THEN FALSE
    ELSE ~BadDimensions(f)

\* _validate_image_file_streaming: "true", "false", or "raise" when
\* loader.write lets a GLib.Error through (it is no OSError).
_validate_image_file_streaming(f) ==
    IF ~f.exists THEN "false"
    ELSE IF Min(f.size, VALIDATION_HEADER_SIZE) = 0 THEN "false"
    ELSE IF f.loader = "corrupt" THEN "raise"
    ELSE IF f.loader = "header"
         THEN IF BadDimensions(f) THEN "false" ELSE "true"
    ELSE IF _validate_image_content(
              f, Min(f.size, VALIDATION_CHUNK_SIZE * VALIDATION_MAX_CHUNKS))
         THEN "true" ELSE "false"

\* _validate_reference_image: the name of the file handle, or "" for
\* (None, False). Every exception ends in the "except Exception" arm.
_validate_reference_image(f) ==
    IF ~f.exists THEN ""
    ELSE IF f.size > max_bytes THEN ""
    ELSE IF f.mime \notin SUPPORTED_MIME_TYPES THEN ""
    ELSE IF _validate_image_file_streaming(f) # "true" THEN ""
    ELSE f.name

\* A plausible slip: "[:max_count + 1]".
SliceOffByOne(s, n) == SubSeq(s, 1, Min(Len(s), n + 1))

\* s[:n]
Slice(s, n) == SubSeq(s, 1, Min(Len(s), n))

\* The handles up to the first file that does not validate.
RECURSIVE HandlesUntilRejection(_)
HandlesUntilRejection(refs) ==
    IF refs = <<>> THEN <<>>
    ELSE LET h == _validate_reference_image(Head(refs)) IN
         IF h = "" THEN <<>>
         ELSE <<h>> \o HandlesUntilRejection(Tail(refs))

\* The loop of _add_reference_images: the handles of the files that validate,
\* in the order of the paths.
RECURSIVE Handles(_)
Handles(refs) ==
    IF refs = <<>> THEN <<>>
    ELSE LET h == _validate_reference_image(Head(refs)) IN
         (IF h = "" THEN <<>> ELSE <<h>>) \o Handles(Tail(refs))

\* A plausible slip: the loop ends ("break") at the first rejected file.
_add_reference_images_break(payload, refs, max_count) ==
    IF refs = <<>> THEN payload
    ELSE LET handles == HandlesUntilRejection(Slice(refs, max_count)) IN
         IF handles # <<>> THEN ("image_input" :> handles) @@ payload
         ELSE payload

\* _add_reference_images(payload, reference_images, max_count): the payload
\* it leaves behind. A payload is a function from keys to values; a value is
\* a sequence of strings (one string for a scalar, the handle names for
\* image_input).
_add_reference_images(payload, refs, max_count) ==
    IF refs = <<>> THEN payload
    ELSE LET handles == Handles(Slice(refs, max_count)) IN
         IF handles # <<>> THEN ("image_input" :> handles) @@ payload
         ELSE payload

\* The payload edit_image hands to _run_streaming_prediction.
EditPayload(prompt, output_format, mv, refs) ==
    LET base == ("prompt" :> <<Strip(prompt)>>)
                  @@ ("image" :> <<"dream-prompter-edit.png">>)
        formatted ==
            IF output_format # ""
            THEN ("output_format" :> <<output_format>>) @@ base
            ELSE IF mv = "qwen/qwen-image-edit"
            THEN ("output_format" :> <<"png">>) @@ base
            ELSE base
    IN _add_reference_images(formatted, refs, MAX_REFERENCE_IMAGES_EDIT)

\* The payload generate_image hands to _run_streaming_prediction.
GeneratePayload(prompt, extra_params, refs) ==
    _add_reference_images(extra_params @@ ("prompt" :> <<Strip(prompt)>>),
                          refs, MAX_REFERENCE_IMAGES_GENERATE)

NoParams == [k \in {} |-> <<>>]

\* What the parameter panel of the dialog returns for a model:
\* get_model_parameters() and get_output_format() ("" for None).
Strategies ==
    { [mv |-> "google/nano-banana",
       params |-> ("output_format" :> <<"jpg">>),
       output_format |-> "jpg"],
      [mv |-> "qwen/qwen-image-edit",
       params |-> ("aspect_ratio" :> <<"match_input_image">>)
                    @@ ("go_fast" :> <<"True">>) @@ ("seed" :> <<"7">>)
                    @@ ("output_format" :> <<"png">>)
                    @@ ("disable_safety_checker" :> <<"False">>),
       output_format |-> "png"],
      [mv |-> "bytedance/seedream-4",
       params |-> ("size" :> <<"2K">>) @@ ("aspect_ratio" :> <<"1:1">>)
                    @@ ("sequential_image_generation" :> <<"disabled">>),
       output_format |-> ""],
      [mv |-> "x", params |-> NoParams, output_format |-> ""] }

\* on_generate -> _sync_edit / _sync_generate -> the client: the payload of
\* the request for the mode, the prompt, the model's panel and the selected
\* files.
RequestPayload(mode, prompt, strategy, refs) ==
    IF mode = "edit"
    THEN EditPayload(prompt, strategy.output_format, strategy.mv, refs)
    ELSE GeneratePayload(prompt, strategy.params, refs)

\* A call of the request builder that has not run yet.
RequestCall(mode, prompt, strategy, refs) ==
    [fn |-> "request", done |-> FALSE, mode |-> mode, prompt |-> prompt,
     strategy |-> strategy, refs |-> refs, payload |-> NoParams]

\* The requests examined: every list of files with a model that has no
\* parameters, and every model and prompt with at most one file.
RequestCalls ==
    {RequestCall(mode, "x", CHOOSE st \in Strategies : st.params = NoParams,
                 refs) :
       mode \in Ops, refs \in SeqsUpTo(Files, MaxPaths)}
    \cup
    {RequestCall(c[1], c[2], c[3], c[4]) :
       c \in Ops \X Texts \X Strategies \X SeqsUpTo(Files, 1)}

\* The request is built; lastCall keeps the inputs and the payload.
BuildRequest ==
    /\ lastCall.fn = "request" /\ ~lastCall.done
    /\ lastCall' = [lastCall EXCEPT
                      !.done = TRUE,
                      !.payload = RequestPayload(lastCall.mode, lastCall.prompt,
                                                 lastCall.strategy,
                                                 lastCall.refs)]
    /\ UNCHANGED <<processing, cancel_requested, model_version, image,
                   drawable, current_thread, workers, uiQueue, ui, lastCb>>

(***************************************************************************)
(* The response decoder. A Python str is a sequence of one-character       *)
(* strings, bytes a sequence of numbers 0..255.                            *)
(***************************************************************************)
\* Most levels of wrapping around a payload.
MaxDepth == 5

\* constants.py
MAX_DOWNLOAD_SIZE_MB == 50
TRUSTED_DOMAINS ==
    { <<"r", "e", "p", "l", "i", "c", "a", "t", "e", ".", "c", "o", "m">>,
      <<"r", "e", "p", "l", "i", "c", "a", "t", "e", ".", "a", "i">>,
      <<"a", "p", "i", ".", "r", "e", "p", "l", "i", "c", "a", "t", "e", ".", "c", "o", "m">> }
\* api.py, the limits on base64 text and on what it decodes to.
B64_TEXT_LIMIT == 134217728
B64_DECODED_LIMIT == 104857600

\* A plausible slip: the ratio 4/3 of text to bytes applied to the limit on
\* the text once more.
TextTooLongScaledTwice(n) == n > (B64_TEXT_LIMIT * 4) \div 3

\* "if len(candidate) > 134217728:"
TextTooLong(n) == n > B64_TEXT_LIMIT

\* The base64 alphabet; a character's value is its position less one.
B64Alphabet ==
  <<"A", "B", "C", "D", "E", "F", "G", "H", "I", "J", "K", "L", "M",
    "N", "O", "P", "Q", "R", "S", "T", "U", "V", "W", "X", "Y", "Z",
    "a", "b", "c", "d", "e", "f", "g", "h", "i", "j", "k", "l", "m",
    "n", "o", "p", "q", "r", "s", "t", "u", "v", "w", "x", "y", "z",
    "0", "1", "2", "3", "4", "5", "6", "7", "8", "9", "+", "/">>

IsB64(c) == \E i \in 1..64 : B64Alphabet[i] = c

B64Value(c) == (CHOOSE i \in 1..64 : B64Alphabet[i] = c) - 1

\* What a decoder returns: the bytes, or the failure it raised.
Decoded(b) == [ok |-> TRUE, v |-> b]
DecodeError == [ok |-> FALSE, v |-> <<>>]

\* base64.b64decode(s) of the standard library, which does not validate: from
\* character i on, with quad characters of the current group of four read,
\* left their pending bits, pads padding characters seen and out the bytes so
\* far. Characters outside the alphabet are skipped, a completed padding
\* ends the input, and a group left open at the end is an error.
RECURSIVE b64decode_from(_, _, _, _, _, _)
b64decode_from(s, i, quad, left, pads, out) ==
    IF i > Len(s)
    THEN IF quad # 0 THEN DecodeError ELSE Decoded(out)
    ELSE IF s[i] = "="
    THEN IF quad >= 2 /\ quad + pads + 1 >= 4 THEN Decoded(out)
         ELSE b64decode_from(s, i + 1, quad, left,
                             IF quad >= 2 THEN pads + 1 ELSE pads, out)
    ELSE IF ~IsB64(s[i])
    THEN b64decode_from(s, i + 1, quad, left, pads, out)
    ELSE LET d == B64Value(s[i]) IN
         IF quad = 0 THEN b64decode_from(s, i + 1, 1, d, 0, out)
         ELSE IF quad = 1
         THEN b64decode_from(s, i + 1, 2, d % 16, 0,
                             Append(out, (left * 4 + d \div 16) % 256))
         ELSE IF quad = 2
         THEN b64decode_from(s, i + 1, 3, d % 4, 0,
                             Append(out, (left * 16 + d \div 4) % 256))
         ELSE b64decode_from(s, i + 1, 0, 0, 0,
                             Append(out, (left * 64 + d) % 256))

b64decode(s) == b64decode_from(s, 1, 0, 0, 0, <<>>)

\* The first position of character c in s from position i on, 0 if none.
RECURSIVE IndexFrom(_, _, _)
IndexFrom(s, c, i) ==
    IF i > Len(s) THEN 0
    ELSE IF s[i] \in c THEN i
    ELSE IndexFrom(s, c, i + 1)

StartsWith(s, p) == Len(s) >= Len(p) /\ SubSeq(s, 1, Len(p)) = p

EndsWith(s, p) ==
    Len(s) >= Len(p) /\ SubSeq(s, Len(s) - Len(p) + 1, Len(s)) = p

\* "_, _, encoded = data.partition(',')"
AfterComma(s) ==
    LET i == IndexFrom(s, {","}, 1) IN
    IF i = 0 THEN <<>> ELSE SubSeq(s, i + 1, Len(s))

\* What _extract_image_bytes returns: bytes, or None.
NoneR == [some |-> FALSE, v |-> <<>>]
BytesR(b) == [some |-> TRUE, v |-> b]

\* "if image_bytes:"
Truthy(r) == r.some /\ r.v # <<>>

\* The str branch of _extract_image_bytes for text that is no URL.
DecodeText(s) ==
    LET encoded == AfterComma(s)
        candidate == IF encoded # <<>> THEN encoded ELSE s
        d == b64decode(candidate)
    IN
    IF TextTooLong(Len(candidate)) THEN NoneR
    ELSE IF ~d.ok THEN NoneR
    ELSE IF Len(d.v) > B64_DECODED_LIMIT THEN NoneR
    ELSE BytesR(d.v)

S_http == <<"h", "t", "t", "p", ":", "/", "/">>
S_https == <<"h", "t", "t", "p", "s", ":", "/", "/">>
S_image == <<"i", "m", "a", "g", "e", "/">>

\* The text a URL is made of in the model.
UrlOf(scheme, host, path) == scheme \o host \o path

U_image == UrlOf(S_https, <<"r", "e", "p", "l", "i", "c", "a", "t", "e", ".", "c", "o", "m">>, <<"/", "a">>)
U_gone == UrlOf(S_https, <<"r", "e", "p", "l", "i", "c", "a", "t", "e", ".", "c", "o", "m">>, <<"/", "x">>)
U_page == UrlOf(S_http, <<"c", "d", "n", ".", "r", "e", "p", "l", "i", "c", "a", "t", "e", ".", "a", "i">>, <<"/", "p">>)
U_evil == UrlOf(S_https, <<"e", "v", "i", "l", ".", "c", "o", "m">>, <<"/", "a">>)

\* Further URLs, with longer bodies behind them.
U_chunk == UrlOf(S_https, <<"r", "e", "p", "l", "i", "c", "a", "t", "e", ".", "c", "o", "m">>, <<"/", "c">>)
U_two == UrlOf(S_https, <<"r", "e", "p", "l", "i", "c", "a", "t", "e", ".", "c", "o", "m">>, <<"/", "t">>)
U_over == UrlOf(S_https, <<"r", "e", "p", "l", "i", "c", "a", "t", "e", ".", "c", "o", "m">>, <<"/", "o">>)

\* "chunk = response.read(8192)"
DOWNLOAD_CHUNK == 8192

\* A body of n bytes.
Body(n) == [i \in 1 .. n |-> i % 256]

Body_chunk == Body(DOWNLOAD_CHUNK)
Body_two == Body(2 * DOWNLOAD_CHUNK)
Body_over == Body(2 * DOWNLOAD_CHUNK + 1)

\* urlopen(url): what the network serves.
UrlOpen(url) ==
    IF url = U_image
    THEN [err |-> FALSE, ctype |-> S_image \o <<"p", "n", "g">>,
          body |-> <<7, 7>>]
    ELSE IF url = U_page
    THEN [err |-> FALSE, ctype |-> <<"t", "e", "x", "t">>, body |-> <<60>>]
    ELSE IF url = U_evil
    THEN [err |-> FALSE, ctype |-> S_image \o <<"p", "n", "g">>,
          body |-> <<6, 6, 6>>]
    ELSE IF url = U_chunk
    THEN [err |-> FALSE, ctype |-> <<"I", "m", "a", "g", "e", "/", "x">>,
          body |-> Body_chunk]
    ELSE IF url = U_two
    THEN [err |-> FALSE, ctype |-> S_image \o <<"p", "n", "g">>,
          body |-> Body_two]
    ELSE IF url = U_over
    THEN [err |-> FALSE, ctype |-> S_image \o <<"p", "n", "g">>,
          body |-> Body_over]
    ELSE [err |-> TRUE, ctype |-> <<>>, body |-> <<>>]

AsciiUpper == SubSeq(B64Alphabet, 1, 26)
AsciiLower == SubSeq(B64Alphabet, 27, 52)
AsciiDigits == SubSeq(B64Alphabet, 53, 62)

\* str.lower()
Lower(s) ==
    [i \in DOMAIN s |->
       IF \E j \in 1 .. 26 : AsciiUpper[j] = s[i]
       THEN AsciiLower[CHOOSE j \in 1 .. 26 : AsciiUpper[j] = s[i]]
       ELSE s[i]]

IsLetter(c) == \E j \in 1 .. 26 : c \in {AsciiUpper[j], AsciiLower[j]}

\* The characters urlparse accepts in a scheme.
IsSchemeChar(c) ==
    \/ IsLetter(c)
    \/ \E j \in 1 .. 10 : AsciiDigits[j] = c
    \/ c \in {"+", "-", "."}

\* Where urlparse ends the scheme of url: the position of the first ":" if a
\* letter followed by scheme characters precedes it, else 0.
SchemeEnd(url) ==
    LET i == IndexFrom(url, {":"}, 1) IN
    IF i > 1 /\ IsLetter(url[1]) /\ \A k \in 1 .. (i - 1) : IsSchemeChar(url[k])
    THEN i ELSE 0

\* urlparse(url).scheme
UrlScheme(url) == Lower(SubSeq(url, 1, SchemeEnd(url) - 1))

\* urlparse(url).netloc
UrlNetloc(url) ==
    LET rest == SubSeq(url, SchemeEnd(url) + 1, Len(url)) IN
    IF ~StartsWith(rest, <<"/", "/">>) THEN <<>>
    ELSE LET host == SubSeq(rest, 3, Len(rest))
             j == IndexFrom(host, {"/", "?", "#"}, 1)
         IN IF j = 0 THEN host ELSE SubSeq(host, 1, j - 1)

\* "domain == trusted or domain.endswith('.' + trusted)" for some trusted
\* domain.
IsTrustedBySuffix(domain) ==
    \E trusted \in TRUSTED_DOMAINS : EndsWith(domain, trusted)

IsTrusted(domain) ==
    \E trusted \in TRUSTED_DOMAINS :
        domain = trusted \/ EndsWith(domain, <<".">> \o trusted)

\* "if len(downloaded_data) > max_size_bytes:"
ExceedsLimitAtEqual(n, max_size_bytes) == n >= max_size_bytes

ExceedsLimit(n, max_size_bytes) == n > max_size_bytes

\* What a run of _download_image yields: what it returns, whether urlopen
\* was called, and the number of calls of response.read.
Ran(ret, opened, reads) == [ret |-> ret, opened |-> opened, reads |-> reads]

\* The loop "while True: chunk = response.read(8192) ..." with
\* downloaded_data read so far in reads calls.
RECURSIVE ReadBody(_, _, _, _)
ReadBody(body, downloaded_data, reads, max_size_bytes) ==
    LET chunk == SubSeq(body, Len(downloaded_data) + 1,
                        Min(Len(downloaded_data) + DOWNLOAD_CHUNK, Len(body)))
    IN
    IF chunk = <<>> THEN Ran(BytesR(downloaded_data), TRUE, reads + 1)
    ELSE IF ExceedsLimit(Len(downloaded_data) + Len(chunk), max_size_bytes)
    THEN Ran(NoneR, TRUE, reads + 1)
    ELSE ReadBody(body, downloaded_data \o chunk, reads + 1, max_size_bytes)

\* A run of _download_image(url, max_size_bytes).
DownloadRun(url, max_size_bytes) ==
    LET scheme == UrlScheme(url)
        domain == Lower(UrlNetloc(url))
        response == UrlOpen(url)
    IN
    IF scheme = <<>> \/ Lower(scheme) \notin {<<"h", "t", "t", "p">>,
                                              <<"h", "t", "t", "p", "s">>}
    THEN Ran(NoneR, FALSE, 0)
    ELSE IF ~IsTrusted(domain) THEN Ran(NoneR, FALSE, 0)
    ELSE IF response.err THEN Ran(NoneR, TRUE, 0)
    ELSE IF ~StartsWith(Lower(response.ctype), S_image)
    THEN Ran(NoneR, TRUE, 0)
    ELSE ReadBody(response.body, <<>>, 0, max_size_bytes)

\* _download_image(url, max_size_bytes)
_download_image(url, max_size_bytes) == DownloadRun(url, max_size_bytes).ret

\* The keys _extract_image_bytes probes in a mapping, in its order.
ProbedKeys ==
    << <<"i", "m", "a", "g", "e">>,
       <<"o", "u", "t", "p", "u", "t">>,
       <<"r", "e", "s", "u", "l", "t">>,
       <<"u", "r", "l">>,
       <<"u", "r", "i">>,
       <<"d", "a", "t", "a">>,
       <<"u", "r", "l", "s">> >>

\* The values a response can hold. A file-like object (FileOutput) has
\* read(), returning v at every call, and a url attribute (<<>>: none); a
\* stream has read() and no seek(), and v is what is left to read; a dict is
\* the sequence of its <<key, value>> pairs in insertion order.
V_None == [kind |-> "none", v |-> <<>>, url |-> <<>>]
V_Bytes(b) == [kind |-> "bytes", v |-> b, url |-> <<>>]
V_Str(s) == [kind |-> "str", v |-> s, url |-> <<>>]
V_File(b, url) == [kind |-> "file", v |-> b, url |-> url]
V_Stream(b) == [kind |-> "stream", v |-> b, url |-> <<>>]
V_Dict(items) == [kind |-> "dict", v |-> items, url |-> <<>>]
V_List(items) == [kind |-> "list", v |-> items, url |-> <<>>]
V_Number == [kind |-> "number", v |-> <<>>, url |-> <<>>]

\* "key in data" and data[key]
HasKey(items, k) == \E i \in DOMAIN items : items[i][1] = k

DictGet(items, k) == items[CHOOSE i \in DOMAIN items : items[i][1] = k][2]

\* The values under the probed keys a mapping has, in probing order.
ProbedValues(items) ==
    LET present == SelectSeq(ProbedKeys, LAMBDA k : HasKey(items, k)) IN
    [i \in DOMAIN present |-> DictGet(items, present[i])]

\* Iterating a mapping yields its keys.
KeysOf(items) == [i \in DOMAIN items |-> V_Str(items[i][1])]

\* _extract_image_bytes(data), and its loops "for item in ...: image_bytes =
\* self._extract_image_bytes(item); if image_bytes: return image_bytes".
RECURSIVE _extract_image_bytes(_), FirstExtracted(_)
FirstExtracted(items) ==
    IF items = <<>> THEN NoneR
    ELSE LET r == _extract_image_bytes(Head(items)) IN
         IF Truthy(r) THEN r ELSE FirstExtracted(Tail(items))

_extract_image_bytes(data) ==
    IF data.kind = "none" THEN NoneR
    ELSE IF data.kind \in {"file", "stream"} /\ data.v # <<>>
    THEN BytesR(data.v)
    ELSE IF data.kind = "bytes" THEN BytesR(data.v)
    ELSE IF data.kind = "str"
    THEN IF StartsWith(data.v, S_http) \/ StartsWith(data.v, S_https)
         THEN _download_image(data.v, MAX_DOWNLOAD_SIZE_MB * 1024 * 1024)
         ELSE DecodeText(data.v)
    ELSE LET by_url ==
               IF data.kind = "file" /\ data.url # <<>>
               THEN _download_image(data.url,
                                    MAX_DOWNLOAD_SIZE_MB * 1024 * 1024)
               ELSE NoneR
         IN
         IF Truthy(by_url) THEN by_url
         ELSE IF data.kind = "dict"
         THEN LET probed == FirstExtracted(ProbedValues(data.v)) IN
              IF Truthy(probed) THEN probed
              ELSE FirstExtracted(KeysOf(data.v))
         ELSE IF data.kind = "list" THEN FirstExtracted(data.v)
         ELSE NoneR

\* Most bytes in a byte string that is encoded and decoded again.
MaxBytes == 4

\* The byte values the byte strings are made of.
ByteSamples == {0, 1, 77, 255}

\* base64.b64encode(b): three bytes to four characters, the last group padded.
RECURSIVE b64encode(_)
b64encode(b) ==
    IF b = <<>> THEN <<>>
    ELSE IF Len(b) = 1
    THEN << B64Alphabet[b[1] \div 4 + 1], B64Alphabet[(b[1] % 4) * 16 + 1],
            "=", "=" >>
    ELSE IF Len(b) = 2
    THEN << B64Alphabet[b[1] \div 4 + 1],
            B64Alphabet[(b[1] % 4) * 16 + b[2] \div 16 + 1],
            B64Alphabet[(b[2] % 16) * 4 + 1], "=" >>
    ELSE << B64Alphabet[b[1] \div 4 + 1],
            B64Alphabet[(b[1] % 4) * 16 + b[2] \div 16 + 1],
            B64Alphabet[(b[2] % 16) * 4 + b[3] \div 64 + 1],
            B64Alphabet[(b[3] % 64) + 1] >> \o b64encode(SubSeq(b, 4, Len(b)))

\* The bytes of an image file of the given width and height: a signature
\* byte and the two dimensions, three bytes each.
ImageBytes(width, height) ==
    << 137,
       width \div 65536, (width \div 256) % 256, width % 256,
       height \div 65536, (height \div 256) % 256, height % 256 >>

\* What GdkPixbuf.PixbufLoader makes of bytes: the pixbuf, or the GLib.Error
\* of write() / close() on data that is no complete image.
NoPixbuf == [ok |-> FALSE, width |-> 0, height |-> 0]

LoadPixbuf(b) ==
    IF Len(b) # 7 \/ b[1] # 137 THEN NoPixbuf
    ELSE LET width == b[2] * 65536 + b[3] * 256 + b[4]
             height == b[5] * 65536 + b[6] * 256 + b[7]
         IN IF width = 0 \/ height = 0 THEN NoPixbuf
            ELSE [ok |-> TRUE, width |-> width, height |-> height]

\* _bytes_to_pixbuf(image_bytes): the loader's pixbuf, None on any exception.
_bytes_to_pixbuf(image_bytes) == LoadPixbuf(image_bytes)

\* The payloads examined, by name.
Leaves ==
    {"none", "bytes", "nobytes", "b64", "datauri", "badb64", "nostr",
     "url", "goneurl", "pageurl", "evilurl", "file", "urlfile", "number",
     "stream"}

LeafValue(name) ==
    CASE name = "none" -> V_None
      [] name = "bytes" -> V_Bytes(<<1, 2>>)
      [] name = "nobytes" -> V_Bytes(<<>>)
      [] name = "b64" -> V_Str(<<"A", "Q", "I", "=">>)
      [] name = "datauri" -> V_Str(<<"d", ":", ";", "b", ",", "A", "Q", "I", "=">>)
      [] name = "badb64" -> V_Str(<<"A", "Q">>)
      [] name = "nostr" -> V_Str(<<>>)
      [] name = "url" -> V_Str(U_image)
      [] name = "goneurl" -> V_Str(U_gone)
      [] name = "pageurl" -> V_Str(U_page)
      [] name = "evilurl" -> V_Str(U_evil)
      [] name = "file" -> V_File(<<3>>, <<>>)
      [] name = "urlfile" -> V_File(<<>>, U_image)
      [] name = "number" -> V_Number
      [] name = "stream" -> V_Stream(<<4>>)
      [] name = "png" -> V_Bytes(ImageBytes(2, 3))
      [] name = "maxpng" -> V_Bytes(ImageBytes(MaxDimension, MaxDimension))
      [] name = "widepng" -> V_Bytes(ImageBytes(MaxDimension + 1, 1))
      [] name = "tallpng" -> V_Str(b64encode(ImageBytes(1, MaxDimension + 1)))
      [] name = "cutpng" -> V_Bytes(SubSeq(ImageBytes(2, 3), 1, 4))

\* The wrappers examined: a one-element list, or a mapping with one of these
\* probed keys.
Wrappers == {"list", "image", "data", "urls"}

KeyChars(name) ==
    CASE name = "image" -> ProbedKeys[1]
      [] name = "data" -> ProbedKeys[6]
      [] name = "urls" -> ProbedKeys[7]

\* v wrapped in the wrappers ws, the first of them outermost.
RECURSIVE Wrap(_, _)
Wrap(v, ws) ==
    IF ws = <<>> THEN v
    ELSE LET inner == Wrap(v, Tail(ws)) IN
         IF Head(ws) = "list" THEN V_List(<<inner>>)
         ELSE V_Dict(<< <<KeyChars(Head(ws)), inner>> >>)

\* A call of the decoder that has not run yet: on the payload alone (direct)
\* and on the payload wrapped (result).
ExtractCall(leaf, wraps) ==
    [fn |-> "_extract_image_bytes", done |-> FALSE, leaf |-> leaf,
     wraps |-> wraps, direct |-> NoneR, result |-> NoneR]

ExtractCalls ==
    {ExtractCall(leaf, wraps) :
       leaf \in Leaves, wraps \in SeqsUpTo(Wrappers, MaxDepth)}

\* The decoder runs on the payload and on the wrapped payload.
ExtractImageBytes ==
    /\ lastCall.fn = "_extract_image_bytes" /\ ~lastCall.done
    /\ lastCall' = [lastCall EXCEPT
                      !.done = TRUE,
                      !.direct = _extract_image_bytes(LeafValue(lastCall.leaf)),
                      !.result = _extract_image_bytes(
                                     Wrap(LeafValue(lastCall.leaf),
                                          lastCall.wraps))]
    /\ UNCHANGED <<processing, cancel_requested, model_version, image,
                   drawable, current_thread, workers, uiQueue, ui, lastCb>>

\* "data:image/png;base64,"
DataUriPrefix ==
    <<"d", "a", "t", "a", ":", "i", "m", "a", "g", "e", "/", "p", "n", "g", ";">> \o
    <<"b", "a", "s", "e", "6", "4", ",">>

DataUri(x) == DataUriPrefix \o b64encode(x)

\* A call of the decoder on the data URI of the bytes x that has not run yet.
DataUriCall(x) ==
    [fn |-> "data_uri", done |-> FALSE, x |-> x, result |-> NoneR]

DataUriCalls == {DataUriCall(x) : x \in SeqsUpTo(ByteSamples, MaxBytes)}

\* The decoder runs on the data URI.
DecodeDataUri ==
    /\ lastCall.fn = "data_uri" /\ ~lastCall.done
    /\ lastCall' = [lastCall EXCEPT
                      !.done = TRUE,
                      !.result = _extract_image_bytes(V_Str(DataUri(lastCall.x)))]
    /\ UNCHANGED <<processing, cancel_requested, model_version, image,
                   drawable, current_thread, workers, uiQueue, ui, lastCb>>

\* A handle after "data.seek(0); data.read()": one without seek() has
\* nothing left to read.
AfterReadNoSeek(data) ==
    IF data.kind \in {"stream", "file"} THEN [data EXCEPT !.v = <<>>] ELSE data

AfterRead(data) ==
    IF data.kind = "stream" THEN [data EXCEPT !.v = <<>>] ELSE data

\* The response as one call of _extract_image_bytes leaves it: the handles
\* the call has read, which are those reached before the first value that
\* yields bytes.
RECURSIVE AfterExtract(_), AfterEach(_)
AfterEach(items) ==
    IF items = <<>> THEN <<>>
    ELSE IF Truthy(_extract_image_bytes(Head(items)))
    THEN <<AfterExtract(Head(items))>> \o Tail(items)
    ELSE <<AfterExtract(Head(items))>> \o AfterEach(Tail(items))

AfterExtract(data) ==
    IF data.kind \in {"file", "stream"} THEN AfterRead(data)
    ELSE IF data.kind = "list" THEN [data EXCEPT !.v = AfterEach(data.v)]
    ELSE IF data.kind = "dict"
    THEN LET present == SelectSeq(ProbedKeys, LAMBDA k : HasKey(data.v, k))
             after == AfterEach(ProbedValues(data.v))
             Pos(k) == CHOOSE i \in DOMAIN present : present[i] = k
         IN [data EXCEPT !.v =
               [i \in DOMAIN data.v |->
                  IF \E j \in DOMAIN present : present[j] = data.v[i][1]
                  THEN <<data.v[i][1], after[Pos(data.v[i][1])]>>
                  ELSE data.v[i]]]
    ELSE data

\* The deepest wrapping of a response decoded twice.
MaxTwiceDepth == 2

\* Two calls of the decoder on the same response that have not run yet.
TwiceCall(leaf, wraps) ==
    [fn |-> "twice", done |-> FALSE, leaf |-> leaf, wraps |-> wraps,
     first |-> NoneR, second |-> NoneR]

TwiceCalls ==
    {TwiceCall(leaf, wraps) :
       leaf \in Leaves, wraps \in SeqsUpTo(Wrappers, MaxTwiceDepth)}

\* The decoder runs on the response and then on the same response again.
ExtractTwice ==
    /\ lastCall.fn = "twice" /\ ~lastCall.done
    /\ LET response == Wrap(LeafValue(lastCall.leaf), lastCall.wraps) IN
       lastCall' = [lastCall EXCEPT
                      !.done = TRUE,
                      !.first = _extract_image_bytes(response),
                      !.second = _extract_image_bytes(AfterExtract(response))]
    /\ UNCHANGED <<processing, cancel_requested, model_version, image,
                   drawable, current_thread, workers, uiQueue, ui, lastCb>>

\* How far around each limit the lengths of the long texts range.
Margin == 5

\* Longest text that is also decoded character by character.
MaxSpelled == 9

\* The number of bytes base64.b64decode yields for a text of n characters of
\* the alphabet followed by pads "=" characters; -1 when it raises.
B64DecodedLen(n, pads) ==
    IF n % 4 = 0 THEN 3 * (n \div 4)
    ELSE IF n % 4 = 1 THEN -1
    ELSE IF n % 4 = 2 THEN IF pads >= 2 THEN 3 * (n \div 4) + 1 ELSE -1
    ELSE IF pads >= 1 THEN 3 * (n \div 4) + 2 ELSE -1

\* The least number of alphabet characters that without padding decode to
\* more than B64_DECODED_LIMIT bytes.
FirstOversize == 4 * (B64_DECODED_LIMIT \div 3) + 4

\* The string branch of _extract_image_bytes on such a text, by lengths: the
\* statement that ends it, whether it returns None, and the size of the
\* buffer b64decode has built (0: b64decode never ran).
DecodeLongText(n, pads) ==
    LET decoded == B64DecodedLen(n, pads) IN
    IF TextTooLong(n + pads)
    THEN [stage |-> "text_gate", none |-> TRUE, built |-> 0]
    ELSE IF decoded = -1
    THEN [stage |-> "error", none |-> TRUE, built |-> 0]
    ELSE IF decoded > B64_DECODED_LIMIT
    THEN [stage |-> "decoded_gate", none |-> TRUE, built |-> decoded]
    ELSE [stage |-> "bytes", none |-> FALSE, built |-> decoded]

\* A call of the decoder on a long text that has not run yet.
LongTextCall(n, pads) ==
    [fn |-> "long_text", done |-> FALSE, n |-> n, pads |-> pads,
     out |-> [stage |-> "", none |-> FALSE, built |-> 0]]

LongTextCalls ==
    {LongTextCall(n, pads) :
       n \in (0 .. MaxSpelled)
             \cup ((B64_TEXT_LIMIT - Margin) .. (B64_TEXT_LIMIT + Margin))
             \cup ((FirstOversize - Margin) .. (FirstOversize + Margin)),
       pads \in 0 .. 2}

\* The decoder runs on the long text.
DecodeLong ==
    /\ lastCall.fn = "long_text" /\ ~lastCall.done
    /\ lastCall' = [lastCall EXCEPT
                      !.done = TRUE,
                      !.out = DecodeLongText(lastCall.n, lastCall.pads)]
    /\ UNCHANGED <<processing, cancel_requested, model_version, image,
                   drawable, current_thread, workers, uiQueue, ui, lastCb>>

\* The URLs tried: each scheme with each host and each path.
SchemesTried ==
    { S_https,
      S_http,
      <<"f", "t", "p", ":", "/", "/">>,
      <<"H", "T", "T", "P", "S", ":", "/", "/">>,
      <<"h", "t", "t", "p", "s", ":", "/">>,
      <<"/", "/">>,
      <<>> }

HostsTried ==
    { <<"r", "e", "p", "l", "i", "c", "a", "t", "e", ".", "c", "o", "m">>,
      <<"a", "p", "i", ".", "r", "e", "p", "l", "i", "c", "a", "t", "e", ".", "c", "o", "m">>,
      <<"C", "d", "n", ".", "R", "e", "p", "l", "i", "c", "a", "t", "e", ".", "A", "I">>,
      <<"e", "v", "i", "l", ".", "c", "o", "m">>,
      <<"e", "v", "i", "l", "r", "e", "p", "l", "i", "c", "a", "t", "e", ".", "c", "o", "m">>,
      <<"r", "e", "p", "l", "i", "c", "a", "t", "e", ".", "c", "o", "m", ".", "e", "v", "i", "l", ".", "c", "o", "m">>,
      <<"r", "e", "p", "l", "i", "c", "a", "t", "e", ".", "c", "o", "m", "@", "e", "v", "i", "l", ".", "c", "o", "m">>,
      <<"e", "v", "i", "l", ".", "c", "o", "m", "@", "r", "e", "p", "l", "i", "c", "a", "t", "e", ".", "c", "o", "m">>,
      <<"r", "e", "p", "l", "i", "c", "a", "t", "e", ".", "c", "o", "m", ":", "4", "4", "3">>,
      <<>> }

PathsTried ==
    { <<"/", "a">>,
      <<"/", "x">>,
      <<"?", ".", "r", "e", "p", "l", "i", "c", "a", "t", "e", ".", "c", "o", "m">>,
      <<"/", ".", "r", "e", "p", "l", "i", "c", "a", "t", "e", ".", "c", "o", "m">>,
      <<>> }

UrlsTried ==
    {UrlOf(scheme, host, path) :
       scheme \in SchemesTried, host \in HostsTried, path \in PathsTried}
    \cup {U_image, U_gone, U_page, U_evil, U_chunk, U_two, U_over}

\* The size limits tried on the URLs that have a body behind them.
LimitsTried ==
    {0, 1, 2, 3, DOWNLOAD_CHUNK - 1, DOWNLOAD_CHUNK, DOWNLOAD_CHUNK + 1,
     2 * DOWNLOAD_CHUNK - 1, 2 * DOWNLOAD_CHUNK, 2 * DOWNLOAD_CHUNK + 1}

\* A call of _download_image that has not run yet.
DownloadCall(url, max_size_bytes) ==
    [fn |-> "_download_image", done |-> FALSE, url |-> url,
     max_size_bytes |-> max_size_bytes, out |-> Ran(NoneR, FALSE, 0)]

DownloadCalls ==
    {DownloadCall(url, MAX_DOWNLOAD_SIZE_MB * 1024 * 1024) : url \in UrlsTried}
    \cup {DownloadCall(url, m) :
            url \in {U_image, U_page, U_chunk, U_two, U_over},
            m \in LimitsTried}

\* The downloader runs.
DownloadImage ==
    /\ lastCall.fn = "_download_image" /\ ~lastCall.done
    /\ lastCall' = [lastCall EXCEPT
                      !.done = TRUE,
                      !.out = DownloadRun(lastCall.url,
                                          lastCall.max_size_bytes)]
    /\ UNCHANGED <<processing, cancel_requested, model_version, image,
                   drawable, current_thread, workers, uiQueue, ui, lastCb>>

\* The responses parsed: the payloads of the decoder and image files.
ParseLeaves == Leaves \cup {"png", "maxpng", "widepng", "tallpng", "cutpng"}

\* _parse_image_response(response) with the prediction output itself: the
\* (pixbuf, error_msg) pair, and the pixbuf handed back.
ParseResponse(response) ==
    LET image_bytes == _extract_image_bytes(response)
        pixbuf == _bytes_to_pixbuf(image_bytes.v)
    IN
    IF ~Truthy(image_bytes)
    THEN [ret |-> Failure("No image data found in Replicate response"),
          pixbuf |-> NoPixbuf]
    ELSE IF pixbuf.ok THEN [ret |-> Success, pixbuf |-> pixbuf]
    ELSE [ret |-> Failure("Failed to decode image data from Replicate response"),
          pixbuf |-> NoPixbuf]

\* A call of _parse_image_response that has not run yet.
ParseCall(leaf, wraps) ==
    [fn |-> "_parse_image_response", done |-> FALSE, leaf |-> leaf,
     wraps |-> wraps, out |-> [ret |-> NoRet, pixbuf |-> NoPixbuf]]

ParseCalls ==
    {ParseCall(leaf, wraps) :
       leaf \in ParseLeaves, wraps \in SeqsUpTo(Wrappers, 1)}

\* The response is parsed.
ParseImageResponse ==
    /\ lastCall.fn = "_parse_image_response" /\ ~lastCall.done
    /\ lastCall' = [lastCall EXCEPT
                      !.done = TRUE,
                      !.out = ParseResponse(Wrap(LeafValue(lastCall.leaf),
                                                 lastCall.wraps))]
    /\ UNCHANGED <<processing, cancel_requested, model_version, image,
                   drawable, current_thread, workers, uiQueue, ui, lastCb>>

\* The client's request building and response decoding, one call at a time:
\* the call is drawn at the start and then made.
LibInit ==
    /\ processing = FALSE
    /\ cancel_requested = FALSE
    /\ model_version = ""
    /\ image = TRUE
    /\ drawable = TRUE
    /\ current_thread = 0
    /\ workers = <<>>
    /\ uiQueue = <<>>
    /\ ui = [enabled |-> TRUE]
    /\ lastCb = NoCb
    /\ \/ lastCall \in RequestCalls
       \/ lastCall \in ExtractCalls
       \/ lastCall \in ParseCalls
       \/ lastCall \in DownloadCalls
       \/ lastCall \in LongTextCalls
       \/ lastCall \in TwiceCalls
       \/ lastCall \in DataUriCalls

LibNext ==
    \/ BuildRequest
    \/ ExtractImageBytes
    \/ DecodeDataUri
    \/ ExtractTwice
    \/ DecodeLong
    \/ DownloadImage
    \/ ParseImageResponse

LibSpec == LibInit /\ [][LibNext]_vars

(***************************************************************************)
(* The settings store. Strings are sequences of characters; the stored     *)
(* form of an API key is a Fernet token in base64, written Token(key, s)   *)
(* for the plain text s encrypted under key.                               *)
(***************************************************************************)
\* Most calls of the settings store in one run.
MaxSettingsCalls == 2

\* constants.py
DEFAULT_MODE == "edit"
DEFAULT_API_KEY_VISIBLE == FALSE
DEFAULT_MODEL_VERSION ==
    <<"g", "o", "o", "g", "l", "e", "/">> \o
    <<"n", "a", "n", "o", "-", "b", "a", "n", "a", "n", "a">>

Plain(s) == [t |-> "plain", key |-> "", s |-> s]
Token(key, s) == [t |-> "token", key |-> key, s |-> s]

\* A result, or the exception raised.
Ok(v) == [ok |-> TRUE, v |-> v]
Raises(e) == [ok |-> FALSE, v |-> e]

\* str.strip()
RECURSIVE LStrip(_)
LStrip(s) == IF s # <<>> /\ Head(s) = " " THEN LStrip(Tail(s)) ELSE s

RECURSIVE RStrip(_)
RStrip(s) ==
    IF s # <<>> /\ s[Len(s)] = " " THEN RStrip(SubSeq(s, 1, Len(s) - 1))
    ELSE s

StrStrip(s) == RStrip(LStrip(s))

\* _get_encryption_key(): the key file's key; a new key written to the key
\* file when there is none; a key that is kept nowhere when the key file
\* cannot be accessed. The pair of the key and the key file afterwards.
_get_encryption_key(keyfile, access) ==
    IF access = "denied" THEN <<"uncached", keyfile>>
    ELSE IF keyfile = "none" THEN <<"k1", "k1">>
    ELSE <<keyfile, keyfile>>

\* _encrypt_api_key(api_key)
_encrypt_api_key(api_key, key) ==
    IF api_key = <<>> THEN Plain(<<>>) ELSE Token(key, api_key)

\* _decrypt_api_key(encrypted_key): the plain text of a token made under the
\* same key; ValueError for every other non-empty text.
_decrypt_api_key(encrypted_key, key) ==
    IF encrypted_key = Plain(<<>>) THEN Ok(<<>>)
    ELSE IF encrypted_key.t = "token" /\ encrypted_key.key = key
            /\ key # "uncached"
    THEN Ok(encrypted_key.s)
    ELSE Raises("ValueError")

\* _sanitize_mode
_sanitize_mode(value) == IF value \in Ops THEN value ELSE DEFAULT_MODE

\* _sanitize_model_version
_sanitize_model_version(value) ==
    IF StrStrip(value) = <<>> THEN DEFAULT_MODEL_VERSION ELSE StrStrip(value)

\* The settings dictionary.
Settings(api_key, mode, prompt, api_key_visible, mv) ==
    [api_key |-> api_key, mode |-> mode, prompt |-> prompt,
     api_key_visible |-> api_key_visible, model_version |-> mv]

DEFAULT_SETTINGS ==
    Settings(<<>>, DEFAULT_MODE, <<>>, DEFAULT_API_KEY_VISIBLE,
             DEFAULT_MODEL_VERSION)

\* _normalize_settings(data), data["api_key"] being in its stored form: the
\* normalized dictionary and whether it differs from data, or ValueError.
_normalize_settings(data, key) ==
    LET api_key_plain == _decrypt_api_key(data.api_key, key) IN
    IF ~api_key_plain.ok THEN Raises("ValueError")
    ELSE LET normalized ==
               Settings(StrStrip(api_key_plain.v), _sanitize_mode(data.mode),
                        StrStrip(data.prompt), data.api_key_visible,
                        _sanitize_model_version(data.model_version))
         IN Ok([settings |-> normalized,
                changed |-> \/ normalized.api_key # api_key_plain.v
                            \/ normalized.mode # data.mode
                            \/ normalized.prompt # data.prompt
                            \/ normalized.model_version # data.model_version])

\* _write_settings(settings): the content of the config file.
_write_settings(settings, key) ==
    [settings EXCEPT !.api_key = _encrypt_api_key(settings.api_key, key)]

\* The values tried.
ApiKeysTried == {<<>>, <<"r", "8">>, <<" ", "r", "8">>}
ModesTried == {"edit", "generate", "paint"}
PromptsTried == {<<>>, <<"p">>, <<"p", " ">>}
ModelVersionsTried == {<<>>, <<"m">>}
Accesses == {"ok", "denied"}

NoSettingsCall ==
    [fn |-> "none", n |-> 0, args |-> DEFAULT_SETTINGS, outcome |-> "",
     loaded |-> DEFAULT_SETTINGS, stored |-> FALSE,
     file |-> <<>>, keyfile |-> "none"]

\* The config file a run starts with, <<>> for none: none, or one holding an
\* encrypted key.
FilesAtStart ==
    {[file |-> <<>>, keyfile |-> "none"],
     [file |-> <<>>, keyfile |-> "k1"],
     [file |-> << Settings(Token("k1", <<"r", "8">>), "generate", <<"p">>,
                           TRUE, <<"m">>) >>,
      keyfile |-> "k1"]}

\* store_settings(api_key, mode, prompt, api_key_visible, model_version),
\* with the key file and the config file accessible or not.
StoreSettings ==
    /\ lastCall.n < MaxSettingsCalls
    /\ \E api_key \in ApiKeysTried, mode \in ModesTried,
          prompt \in PromptsTried, api_key_visible \in BOOLEAN,
          mv \in ModelVersionsTried, keyAccess \in Accesses,
          fileAccess \in Accesses :
         LET args == Settings(api_key, mode, prompt, api_key_visible, mv)
             \* "_decrypt_api_key(str(encrypted_api_key))" on the argument
             got == _get_encryption_key(lastCall.keyfile, keyAccess)
             keyfile1 == IF api_key = <<>> THEN lastCall.keyfile ELSE got[2]
             normalized == _normalize_settings(
                               [args EXCEPT !.api_key = Plain(api_key)],
                               got[1])
             called == [lastCall EXCEPT !.fn = "store_settings",
                                        !.n = @ + 1, !.args = args,
                                        !.loaded = DEFAULT_SETTINGS,
                                        !.stored = FALSE]
         IN
         lastCall' =
           IF mode \notin Ops
           THEN [called EXCEPT !.outcome = "ValueError"]
           ELSE IF ~normalized.ok
           THEN [called EXCEPT !.outcome = "RuntimeError",
                               !.keyfile = keyfile1]
           ELSE IF fileAccess = "denied"
           THEN [called EXCEPT !.outcome = "IOError", !.keyfile = keyfile1]
           ELSE [called EXCEPT
                   !.outcome = "ok", !.stored = TRUE,
                   !.keyfile = IF normalized.v.settings.api_key = <<>>
                               THEN keyfile1 ELSE got[2],
                   !.file = <<_write_settings(normalized.v.settings,
                                              got[1])>>]
    /\ UNCHANGED <<processing, cancel_requested, model_version, image,
                   drawable, current_thread, workers, uiQueue, ui, lastCb>>

\* load_settings(), with the key file and the config file accessible or not.
LoadSettings ==
    /\ lastCall.n < MaxSettingsCalls
    /\ \E keyAccess \in Accesses, fileAccess \in Accesses :
         LET got == _get_encryption_key(lastCall.keyfile, keyAccess)
             needsKey == lastCall.file # <<>> /\ fileAccess = "ok"
                         /\ lastCall.file[1].api_key # Plain(<<>>)
             normalized == _normalize_settings(lastCall.file[1], got[1])
             called == [lastCall EXCEPT !.fn = "load_settings", !.n = @ + 1,
                                        !.outcome = "ok"]
         IN
         lastCall' =
           IF lastCall.file = <<>> \/ fileAccess = "denied"
           THEN [called EXCEPT !.loaded = DEFAULT_SETTINGS]
           ELSE IF ~normalized.ok
           THEN [called EXCEPT !.loaded = DEFAULT_SETTINGS,
                               !.keyfile = IF needsKey THEN got[2] ELSE @]
           ELSE [called EXCEPT
                   !.loaded = normalized.v.settings,
                   !.keyfile = IF needsKey THEN got[2] ELSE @,
                   !.file = IF normalized.v.changed
                            THEN <<_write_settings(normalized.v.settings,
                                                   got[1])>>
                            ELSE @]
    /\ UNCHANGED <<processing, cancel_requested, model_version, image,
                   drawable, current_thread, workers, uiQueue, ui, lastCb>>

SettingsInit ==
    /\ processing = FALSE
    /\ cancel_requested = FALSE
    /\ model_version = ""
    /\ image = TRUE
    /\ drawable = TRUE
    /\ current_thread = 0
    /\ workers = <<>>
    /\ uiQueue = <<>>
    /\ ui = [enabled |-> TRUE]
    /\ lastCb = NoCb
    /\ \E start \in FilesAtStart :
         lastCall = [NoSettingsCall EXCEPT !.file = start.file,
                                           !.keyfile = start.keyfile]

SettingsNext ==
    \/ StoreSettings
    \/ LoadSettings

SettingsSpec == SettingsInit /\ [][SettingsNext]_vars

(***************************************************************************)
(* The dialog's list of selected reference files.                          *)
(***************************************************************************)
\* Most files picked in the file chooser at once.
MaxChosen == 4

\* The paths the file chooser offers.
PathsOffered == {"a.png", "b.png", "c.png", "d.png"}

\* A plausible slip: the cap of the Generate mode for both modes.
max_total_files_same(current_mode) == 3

\* on_select_files: "if current_mode == 'edit': max_total_files = 2
\* else: max_total_files = 3"
max_total_files(current_mode) == IF current_mode = "edit" THEN 2 ELSE 3

\* list.remove(x): s without the first occurrence of x.
RemoveFirst(s, x) ==
    LET i == CHOOSE k \in DOMAIN s : s[k] = x /\ \A j \in 1 .. (k - 1) : s[j] # x
    IN SubSeq(s, 1, i - 1) \o SubSeq(s, i + 1, Len(s))

\* The dialog as an event handler leaves it: the handler that ran, the mode
\* of the radio buttons, the selected files and their number before the
\* handler ran.
DialogState(fn, mode, selected_files, before) ==
    [fn |-> fn, mode |-> mode, selected_files |-> selected_files,
     before |-> before]

\* on_select_files: the chooser is answered with files, or cancelled.
on_select_files ==
    \E ok \in BOOLEAN, files \in SeqsUpTo(PathsOffered, MaxChosen) :
      LET selected_files == lastCall.selected_files
          max_new_files == max_total_files(lastCall.mode) - Len(selected_files)
      IN
      /\ lastCall' =
           DialogState("on_select_files", lastCall.mode,
                       IF ok /\ max_new_files > 0
                       THEN selected_files \o Slice(files, max_new_files)
                       ELSE selected_files,
                       Len(selected_files))
      /\ UNCHANGED <<processing, cancel_requested, model_version, image,
                     drawable, current_thread, workers, uiQueue, ui, lastCb>>

\* on_remove_file(file_path), from the remove button of a row or for a path
\* no longer in the list.
on_remove_file ==
    \E file_path \in PathsOffered :
      /\ lastCall' =
           DialogState("on_remove_file", lastCall.mode,
                       IF \E k \in DOMAIN lastCall.selected_files :
                              lastCall.selected_files[k] = file_path
                       THEN RemoveFirst(lastCall.selected_files, file_path)
                       ELSE lastCall.selected_files,
                       Len(lastCall.selected_files))
      /\ UNCHANGED <<processing, cancel_requested, model_version, image,
                     drawable, current_thread, workers, uiQueue, ui, lastCb>>

\* on_clear_files
on_clear_files ==
    /\ lastCall' = DialogState("on_clear_files", lastCall.mode, <<>>,
                               Len(lastCall.selected_files))
    /\ UNCHANGED <<processing, cancel_requested, model_version, image,
                   drawable, current_thread, workers, uiQueue, ui, lastCb>>

\* The other radio button is chosen and on_mode_changed(mode) runs.
on_mode_changed ==
    \E mode \in Ops \ {lastCall.mode} :
      /\ lastCall' =
           DialogState("on_mode_changed", mode,
                       IF mode = "edit" /\ Len(lastCall.selected_files) > 2
                       THEN Slice(lastCall.selected_files, 2)
                       ELSE lastCall.selected_files,
                       Len(lastCall.selected_files))
      /\ UNCHANGED <<processing, cancel_requested, model_version, image,
                     drawable, current_thread, workers, uiQueue, ui, lastCb>>

DialogInit ==
    /\ processing = FALSE
    /\ cancel_requested = FALSE
    /\ model_version = ""
    /\ image = TRUE
    /\ drawable = TRUE
    /\ current_thread = 0
    /\ workers = <<>>
    /\ uiQueue = <<>>
    /\ ui = [enabled |-> TRUE]
    /\ lastCb = NoCb
    /\ \E mode \in Ops : lastCall = DialogState("none", mode, <<>>, 0)

DialogNext ==
    \/ on_select_files
    \/ on_remove_file
    \/ on_clear_files
    \/ on_mode_changed

DialogSpec == DialogInit /\ [][DialogNext]_vars

(***************************************************************************)
(* Properties.                                                             *)
(***************************************************************************)
Requests == DOMAIN workers

\* The terminal handler of request t has run.
Handled(t) == workers[t].outcome \in {"success", "error", "cancelled"}

CallbackCount(t) == workers[t].nSucc + workers[t].nErr

IsFailure(ret) == ~ret.img /\ ret.msg \notin {"", "Operation cancelled", NoRet.msg}

\* C1: a call of start while the state is Processing changes nothing: the
\* state stays Processing, cancel_requested keeps its value, no callback
\* fires, nothing is scheduled and no worker thread is created.
C1_StartWhileProcessingIsNoop ==
    [][ (processing /\ lastCall' # lastCall) =>
          /\ processing'
          /\ cancel_requested' = cancel_requested
          /\ lastCb' = lastCb
          /\ workers' = workers
          /\ current_thread' = current_thread
          /\ uiQueue' = uiQueue
          /\ ui' = ui
          /\ model_version' = model_version ]_vars

\* start was called while a request was Processing, and it still is.
C1_Witness ==
    /\ processing
    /\ lastCall.fn = "start" /\ lastCall.wasProcessing /\ lastCall.valid
    /\ Len(workers) = 1 /\ workers[1].pc = "stream"

\* C2: in every reachable state at most one worker thread is running.
C2_AtMostOneWorker ==
    Cardinality({t \in Requests : Live(t)}) <= 1

\* A second worker runs, after the first has ended and was handled.
C2_Witness ==
    /\ Len(workers) = 2
    /\ Live(2) /\ ~Live(1)
    /\ workers[2].pc = "attempt"

\* C3 as stated: every request whose terminal handler has run has had
\* exactly one invocation of on_success / on_error.
C3_Original ==
    \A t \in Requests : Handled(t) => CallbackCount(t) = 1

\* C3 as amended: a request never gets more than one callback and none before
\* its terminal handler runs; once the handler has run, the request has had
\* exactly one callback unless the handler is _handle_cancelled, and then it
\* has had none.
C3_ExactlyOneCallbackUnlessCancelled ==
    \A t \in Requests :
        /\ CallbackCount(t) <= 1
        /\ ~Handled(t) => CallbackCount(t) = 0
        /\ (Handled(t) /\ workers[t].posted # "_handle_cancelled")
              => CallbackCount(t) = 1
        /\ (Handled(t) /\ workers[t].posted = "_handle_cancelled")
              => CallbackCount(t) = 0

\* The client succeeded, creating the image or layer failed, and on_error
\* fired once.
C3_Witness ==
    \E t \in Requests :
        /\ workers[t].posted = "_handle_image"
        /\ Handled(t)
        /\ workers[t].nErr = 1 /\ workers[t].nSucc = 0

\* C4 as stated: a start issued while Idle with inputs that pass every input
\* check enters Processing and creates a worker.
C4_StartWhileIdleEntersProcessing ==
    [][ (~processing /\ lastCall' # lastCall /\ lastCall'.valid
         /\ Len(workers) < MaxRequests) =>
          /\ processing'
          /\ Len(workers') = Len(workers) + 1 ]_vars

\* C5: every request that entered Processing returns to Idle.
C5_ProcessingLeadsToIdle == processing ~> ~processing

\* A request went through Processing and ended Cancelled, back in Idle.
C5_Witness ==
    \E t \in Requests :
        /\ workers[t].outcome = "cancelled"
        /\ workers[t].cbFalse
        /\ ~processing

\* C6: whenever on_success or on_error is invoked, is_processing() is false.
C6_IdleAtCallback ==
    lastCb.cb \in Callbacks => ~lastCb.processing

\* on_success was invoked for a request that had been Processing.
C6_Witness ==
    /\ lastCb.cb = "on_success"
    /\ lastCb.t \in Requests
    /\ workers[lastCb.t].imported

\* The step in which client.predictions.create returns a new prediction.
CreatesPrediction(t) ==
    workers[t].pc = "attempt" /\ workers'[t].pc = "stream"

ClaimTransient ==
    {"ConnectionError", "TimeoutError", "NetworkOSError", "ReplicateError429"}

\* C8: when the client call ends on a transient error, every attempt has
\* failed on one: 4 attempts were made, the sleeps were 1, 2 and 4 seconds,
\* and the call returns a Failure.
C8_RetryBound ==
    \A t \in Requests :
        (workers[t].pc = "returned" /\ workers[t].lastErr \in ClaimTransient)
          => /\ workers[t].attempt + 1 = 4
             /\ workers[t].sleeps = <<1, 2, 4>>
             /\ IsFailure(workers[t].ret)

\* Four attempts ended on a rate-limit error.
C8_Witness ==
    \E t \in Requests :
        /\ workers[t].pc = "returned"
        /\ workers[t].lastErr = "ReplicateError429"
        /\ workers[t].attempt = max_retries

\* No retry after error k: the loop does not sleep after it, no attempt
\* follows it and the call returns a Failure.
NotRetried(w) ==
    /\ w.pc = "returned"
    /\ Len(w.sleeps) = w.attempt
    /\ IsFailure(w.ret)

SucceededUncancelled(w) ==
    w.pc = "returned" /\ w.ret = Success /\ ~w.cbFalse

NonDecreasing(q) ==
    \A i, j \in DOMAIN q : i <= j => q[i] <= q[j]

\* C10 as stated: a successful, uncancelled run reports the five checkpoints
\* once each, in order, for Edit and for Generate.
C10_Original ==
    \A t \in Requests :
        SucceededUncancelled(workers[t])
          => workers[t].cps = <<1, 5, 7, 9, 10>>

\* C10 as amended: a successful, uncancelled Edit run reports the five
\* checkpoints once each, in order; a Generate run reports four of them
\* (preparing, queued/processing, downloading/collecting, complete) and never
\* the uploading/building one. The fractions are non-decreasing, within [0,1].
C10_CheckpointOrder ==
    \A t \in Requests :
        SucceededUncancelled(workers[t])
          => /\ workers[t].op = "edit" => workers[t].cps = <<1, 5, 7, 9, 10>>
             /\ workers[t].op = "generate" => workers[t].cps = <<1, 7, 9, 10>>
             /\ NonDecreasing(workers[t].cps)
             /\ \A i \in DOMAIN workers[t].cps :
                   workers[t].cps[i] >= 0 /\ workers[t].cps[i] <= 10

\* A Generate run has succeeded.
C10_Witness ==
    \E t \in Requests :
        /\ SucceededUncancelled(workers[t])
        /\ workers[t].op = "generate"
        /\ Len(workers[t].cps) = 4

\* The last fraction handed to progress_callback in the run.
LastCheckpoint(w) == w.cps[Len(w.cps)]

\* progress_callback returned False at a checkpoint that precedes the
\* prediction call.
CancelledBeforeCall(w) ==
    /\ w.cbFalse /\ ~w.streamAbort /\ w.bcancel = 0
    /\ w.cps # <<>>
    /\ LastCheckpoint(w) \in
         {PROGRESS_PREPARE, PROGRESS_UPLOAD, PROGRESS_PROCESS}

\* C11: when progress_callback returns False at the preparing, uploading or
\* queued/processing checkpoint, the call returns (None, "Operation
\* cancelled"), no prediction was or is created, and no later checkpoint is
\* reported.
C11_CancelBeforePrediction ==
    /\ [](\A t \in Requests :
            CancelledBeforeCall(workers[t]) =>
              /\ workers[t].pc = "returned"
              /\ workers[t].ret = CancelledRet
              /\ workers[t].attempt = 0 /\ workers[t].sleeps = <<>>
              /\ workers[t].nev = 0 /\ workers[t].lastErr = "none")
    /\ [][ \A t \in Requests :
             CancelledBeforeCall(workers[t]) =>
               /\ ~CreatesPrediction(t)
               /\ Len(workers'[t].cps) <= Len(workers[t].cps) ]_vars

\* An Edit call was cancelled at the uploading checkpoint.
C11_Witness ==
    \E t \in Requests :
        /\ CancelledBeforeCall(workers[t])
        /\ workers[t].op = "edit"
        /\ workers[t].cps = <<PROGRESS_PREPARE, PROGRESS_UPLOAD>>
        /\ workers[t].ret = CancelledRet

\* The stream callback has returned False on a recognised event of the run.
StreamCallbackFalse(w) == w.streamAbort \/ w.bcancel > 0

\* C12 as stated: whenever the stream callback returns False on a recognised
\* event, prediction.cancel is called and the client aborts: it goes on to
\* the next checkpoint without the terminal result, and the retry loop
\* creates no further prediction.
C12_StreamCancelAborts ==
    /\ [](\A t \in Requests :
            StreamCallbackFalse(workers[t]) => workers[t].bcancel >= 1)
    /\ [][ \A t \in Requests :
             StreamCallbackFalse(workers[t]) => ~CreatesPrediction(t) ]_vars
    /\ [][ \A t \in Requests :
             (~workers[t].streamAbort /\ workers'[t].streamAbort) =>
                /\ workers'[t].pc = "checkpoint"
                /\ workers'[t].response = "empty" ]_vars

\* C13 as stated: a run in which the stream callback made create_prediction
\* return early ends Cancelled.
C13_StreamCancelIsCancelled ==
    \A t \in Requests :
        (workers[t].streamAbort /\ workers[t].pc = "returned")
          => workers[t].ret = CancelledRet

\* C14 as stated: a call never raises, and what it returns is (image, None)
\* or (None, non-empty message).
C14_ExactlyOneVariant ==
    \A t \in Requests :
        /\ workers[t].pc # "raised"
        /\ workers[t].pc = "returned" =>
             \/ workers[t].ret = Success
             \/ ~workers[t].ret.img /\ workers[t].ret.msg # ""

\* What the UI calls of request t write: the fraction shown, the terminal
\* status, the callbacks fired and the image or layer created.
UiTouched(t) ==
    <<workers[t].frac, workers[t].outcome, workers[t].nSucc, workers[t].nErr,
      workers[t].imported>>

\* q2 is q, or q with one more call scheduled for request t.
ScheduledBy(t, q, q2) ==
    \/ q2 = q
    \/ /\ Len(q2) = Len(q) + 1
       /\ SubSeq(q2, 1, Len(q)) = q
       /\ q2[Len(q2)].t = t

\* C15: a step of the worker thread writes nothing the UI calls write; it
\* only schedules calls on the UI loop. What the UI calls of a request write
\* changes only in a step of the UI loop that takes the request's call from
\* the head of the queue.
C15_WorkerSchedulesUiCalls ==
    [][ \A t \in Requests :
          /\ WorkerStep(t) =>
               /\ UNCHANGED <<processing, current_thread, ui, lastCb>>
               /\ \A u \in Requests : UiTouched(u)' = UiTouched(u)
               /\ ScheduledBy(t, uiQueue, uiQueue')
          /\ (Len(workers') = Len(workers) /\ UiTouched(t)' # UiTouched(t)) =>
               /\ uiQueue # <<>>
               /\ Head(uiQueue).t = t
               /\ uiQueue' = Tail(uiQueue)
               /\ workers'[t].pc = workers[t].pc ]_vars

\* The UI loop has shown the queued/processing fraction of a request whose
\* worker is streaming and has scheduled a further status update.
C15_Witness ==
    \E t \in Requests :
        /\ workers[t].pc = "stream"
        /\ workers[t].frac = PROGRESS_PROCESS
        /\ uiQueue # <<>>
        /\ uiQueue[Len(uiQueue)].fn = "update_status"
        /\ uiQueue[Len(uiQueue)].t = t

\* C16 as stated: a start issued while Idle with inputs that fail an input
\* check reports through on_error at once and on the calling thread, creates
\* no worker, schedules nothing and leaves the state Idle.
C16_InvalidStartReportsError ==
    [][ (~processing /\ lastCall' # lastCall /\ ~lastCall'.valid) =>
          /\ lastCb' = [cb |-> "on_error", processing |-> FALSE, t |-> 0]
          /\ workers' = workers
          /\ uiQueue' = uiQueue
          /\ current_thread' = 0
          /\ ~processing' ]_vars

\* The number of images attached to a payload.
Attached(payload) ==
    IF "image_input" \in DOMAIN payload THEN Len(payload["image_input"])
    ELSE 0

\* The caps C17 names.
ClaimCap(mode) == IF mode = "edit" THEN 2 ELSE 3

\* The validator gates of C18: size, MIME type, decode/dimensions.
FailsSizeGate(f) == ~f.exists \/ f.size > 7 * 1024 * 1024

FailsMimeGate(f) == f.mime \notin {"image/png", "image/jpeg", "image/webp"}

FailsDecodeGate(f) ==
    \/ f.size = 0
    \/ f.loader = "corrupt"
    \/ f.loader = "late" /\ f.size > 10 * 8192
    \/ f.width <= 0 \/ f.height <= 0 \/ f.width > 65535 \/ f.height > 65535

PassesEveryGate(f) ==
    ~FailsSizeGate(f) /\ ~FailsMimeGate(f) /\ ~FailsDecodeGate(f)

Names(fs) == [i \in DOMAIN fs |-> fs[i].name]

\* C17: for every list of reference paths at most 2 images are attached to an
\* Edit payload and at most 3 to a Generate payload; paths beyond the cap are
\* dropped and the payload is built all the same.
C17_ReferenceCap ==
    (lastCall.fn = "request" /\ lastCall.done) =>
      /\ Attached(lastCall.payload) <= ClaimCap(lastCall.mode)
      /\ "prompt" \in DOMAIN lastCall.payload
      /\ (/\ Len(lastCall.refs) > ClaimCap(lastCall.mode)
          /\ \A i \in 1..ClaimCap(lastCall.mode) :
                PassesEveryGate(lastCall.refs[i]))
           => Attached(lastCall.payload) = ClaimCap(lastCall.mode)

\* Four valid files were selected for a Generate request and three attached.
C17_Witness ==
    /\ lastCall.fn = "request" /\ lastCall.done
    /\ lastCall.mode = "generate"
    /\ Len(lastCall.refs) = 4
    /\ \A i \in 1..4 : PassesEveryGate(lastCall.refs[i])
    /\ Attached(lastCall.payload) = 3

\* The images a payload should carry when the files of fs that pass every
\* gate are attached in order.
PayloadCarries(payload, fs) ==
    LET passing == SelectSeq(fs, PassesEveryGate) IN
    IF passing = <<>> THEN "image_input" \notin DOMAIN payload
    ELSE /\ "image_input" \in DOMAIN payload
         /\ payload["image_input"] = Names(passing)

\* C18 as stated: the payload carries every selected file that passes the
\* gates, in order, and image_input is present only if there is one.
C18_Original ==
    (lastCall.fn = "request" /\ lastCall.done) => PayloadCarries(lastCall.payload, lastCall.refs)

\* C18 as amended: the payload carries, in order, the files that pass the
\* gates among the first 2 (Edit) or 3 (Generate) selected paths; a file
\* beyond the cap is dropped whether it passes or not; image_input is present
\* only if one of them passes; a rejection ends nothing.
C18_PassingAmongFirstAttached ==
    (lastCall.fn = "request" /\ lastCall.done) =>
      /\ PayloadCarries(lastCall.payload,
                        Slice(lastCall.refs, ClaimCap(lastCall.mode)))
      /\ "prompt" \in DOMAIN lastCall.payload

\* A rejected file stands between two passing ones, and both are attached.
C18_Witness ==
    /\ lastCall.fn = "request" /\ lastCall.done
    /\ lastCall.mode = "generate"
    /\ Len(lastCall.refs) >= 3
    /\ PassesEveryGate(lastCall.refs[1])
    /\ FailsDecodeGate(lastCall.refs[2])
    /\ PassesEveryGate(lastCall.refs[3])
    /\ lastCall.payload["image_input"]
         = <<lastCall.refs[1].name, lastCall.refs[3].name>>

\* C19 as stated: every entry of the model's parameter mapping is in the
\* payload, unchanged, for Edit and for Generate.
C19_ParamsVerbatim ==
    (lastCall.fn = "request" /\ lastCall.done) =>
      \A k \in DOMAIN lastCall.strategy.params :
          /\ k \in DOMAIN lastCall.payload
          /\ lastCall.payload[k] = lastCall.strategy.params[k]

\* C20 as stated: the decoder returns for a payload wrapped in up to 5 levels
\* of one-element sequences and of mappings under a probed key what it
\* returns for the payload alone.
C20_WrappingIsTransparent ==
    (lastCall.fn = "_extract_image_bytes" /\ lastCall.done) =>
        lastCall.result = lastCall.direct

\* C21 as stated: a mapping whose value under the probed key yields no bytes
\* decodes to None; the name of the key is never decoded as the payload.
C21_KeyNamesNeverDecoded ==
    (/\ lastCall.fn = "_extract_image_bytes" /\ lastCall.done
     /\ lastCall.wraps # <<>>
     /\ Head(lastCall.wraps) # "list"
     /\ ~Truthy(_extract_image_bytes(Wrap(LeafValue(lastCall.leaf),
                                          Tail(lastCall.wraps))))) =>
        lastCall.result = NoneR

\* C22 as stated: the data URI "data:image/png;base64," + base64(X) decodes to
\* exactly X for every byte string X, the empty one included.
C22_DataUriRoundTrip ==
    (lastCall.fn = "data_uri" /\ lastCall.done) =>
        lastCall.result = BytesR(lastCall.x)

Spelled(n, pads) == [i \in 1 .. (n + pads) |-> IF i <= n THEN "A" ELSE "="]

\* C24: a base64 text that would decode to more than 104857600 bytes is
\* answered with None by the gate on the length of the text, before
\* b64decode runs, so no decoded buffer is built. On the texts short enough
\* to spell out, decoding by lengths agrees with decoding the characters.
C24_OversizeStopsAtTextGate ==
    (lastCall.fn = "long_text" /\ lastCall.done) =>
        /\ B64DecodedLen(lastCall.n, lastCall.pads) > B64_DECODED_LIMIT =>
             /\ lastCall.out.stage = "text_gate"
             /\ lastCall.out.none
             /\ lastCall.out.built = 0
        /\ lastCall.n <= MaxSpelled =>
             LET r == DecodeText(Spelled(lastCall.n, lastCall.pads)) IN
             /\ r.some = ~lastCall.out.none
             /\ r.some => Len(r.v) = lastCall.out.built

\* The shortest text that would decode to more than the limit was refused.
C24_Witness ==
    /\ lastCall.fn = "long_text" /\ lastCall.done
    /\ lastCall.n = FirstOversize /\ lastCall.pads = 0
    /\ B64DecodedLen(lastCall.n, lastCall.pads) > B64_DECODED_LIMIT
    /\ B64DecodedLen(lastCall.n - 4, 0) <= B64_DECODED_LIMIT
    /\ lastCall.out.stage = "text_gate"

\* The host of a URL: its authority without the user information before the
\* last "@" and without the port after it.
RECURSIVE LastIndex(_, _, _)
LastIndex(s, c, i) ==
    IF i = 0 THEN 0 ELSE IF s[i] = c THEN i ELSE LastIndex(s, c, i - 1)

UrlHost(url) ==
    LET authority == UrlNetloc(url)
        hostport == SubSeq(authority,
                           LastIndex(authority, "@", Len(authority)) + 1,
                           Len(authority))
        colon == IndexFrom(hostport, {":"}, 1)
    IN Lower(IF colon = 0 THEN hostport ELSE SubSeq(hostport, 1, colon - 1))

\* The host is a trusted domain or a subdomain of one.
TrustedHost(host) ==
    \E trusted \in TRUSTED_DOMAINS :
        \/ host = trusted
        \/ /\ Len(host) > Len(trusted)
           /\ SubSeq(host, Len(host) - Len(trusted), Len(host))
                = <<".">> \o trusted

PassesUrlGates(url) ==
    /\ UrlScheme(url) \in {<<"h", "t", "t", "p">>, <<"h", "t", "t", "p", "s">>}
    /\ TrustedHost(UrlHost(url))

ReadsBody(call) ==
    /\ call.out.opened
    /\ ~UrlOpen(call.url).err
    /\ StartsWith(Lower(UrlOpen(call.url).ctype), S_image)

\* C26: the downloader never returns more than max_size_bytes bytes; a longer
\* body is given up at the first read that takes the total above
\* max_size_bytes and None is returned; a body of at most max_size_bytes
\* bytes, one of exactly that many included, is returned in full.
C26_DownloadSizeCap ==
    (lastCall.fn = "_download_image" /\ lastCall.done) =>
        LET body == UrlOpen(lastCall.url).body
            limit == lastCall.max_size_bytes
        IN
        /\ lastCall.out.ret.some => Len(lastCall.out.ret.v) <= limit
        /\ (ReadsBody(lastCall) /\ Len(body) > limit) =>
             /\ lastCall.out.ret = NoneR
             /\ lastCall.out.reads = (limit \div DOWNLOAD_CHUNK) + 1
        /\ (ReadsBody(lastCall) /\ Len(body) <= limit) =>
             lastCall.out.ret = BytesR(body)

\* A body of exactly max_size_bytes bytes, two chunks long, was returned.
C26_Witness ==
    /\ lastCall.fn = "_download_image" /\ lastCall.done
    /\ lastCall.url = U_two
    /\ lastCall.max_size_bytes = 2 * DOWNLOAD_CHUNK
    /\ lastCall.out.ret = BytesR(Body_two)
    /\ lastCall.out.reads = 3

\* C27 as stated: Success is returned only with an image whose width and
\* height are both above 0 and at most 65535; every other response is
\* returned as a Failure with a message.
C27_SuccessOnlyInRange ==
    (lastCall.fn = "_parse_image_response" /\ lastCall.done) =>
        /\ lastCall.out.ret.img =>
             /\ lastCall.out.pixbuf.ok
             /\ lastCall.out.pixbuf.width \in 1 .. MaxDimension
             /\ lastCall.out.pixbuf.height \in 1 .. MaxDimension
        /\ ~lastCall.out.ret.img => lastCall.out.ret.msg # ""

\* C28 as stated: store_settings with a valid mode and a non-empty plain API
\* key completes when the files are accessible, and a load_settings that
\* follows it returns the stored values, strings trimmed, the API key among
\* them.
C28_SettingsRoundTrip ==
    /\ (/\ lastCall.fn = "store_settings"
        /\ lastCall.args.mode \in Ops
        /\ StrStrip(lastCall.args.api_key) # <<>>
        /\ lastCall.outcome # "IOError") =>
          lastCall.outcome = "ok"
    /\ (/\ lastCall.fn = "load_settings"
        /\ lastCall.stored
        /\ StrStrip(lastCall.args.api_key) # <<>>
        /\ lastCall.outcome = "ok") =>
          /\ lastCall.loaded.api_key = StrStrip(lastCall.args.api_key)
          /\ lastCall.loaded.mode = lastCall.args.mode
          /\ lastCall.loaded.prompt = StrStrip(lastCall.args.prompt)
          /\ lastCall.loaded.api_key_visible = lastCall.args.api_key_visible

RECURSIVE StatusFractions(_)
StatusFractions(stmts) ==
    IF stmts = <<>> THEN <<>>
    ELSE (IF Head(stmts) = "status_creating" THEN <<HANDLER_CREATING>>
          ELSE IF Head(stmts) = "status_created" THEN <<HANDLER_CREATED>>
          ELSE <<>>) \o StatusFractions(Tail(stmts))

\* The fractions the call e of the UI loop delivers to ui.update_status.
DeliveredBy(e, create) ==
    IF e.fn = "update_status"
    THEN IF e.pct = {} THEN <<>> ELSE <<CHOOSE f \in e.pct : TRUE>>
    ELSE StatusFractions(HandlerBody(e.fn, create))

\* C29: within one threaded request the fractions delivered to
\* ui.update_status on the UI loop, the client's checkpoint fractions followed
\* by the terminal handler's own status updates, never decrease: each call the
\* UI loop takes from its queue delivers fractions that start at or above the
\* one the request's progress bar shows and do not decrease among themselves.
C29_DeliveredFractionsNonDecreasing ==
    [][ (/\ uiQueue # <<>>
         /\ uiQueue' = Tail(uiQueue)
         /\ Head(uiQueue).t \in DOMAIN workers) =>
          \A create \in HostOutcomes :
              NonDecreasing(<<workers[Head(uiQueue).t].frac>>
                            \o DeliveredBy(Head(uiQueue), create)) ]_vars

====
